--------------------------- MODULE MCMaintenance ---------------------------
(* The three kinds of maintenance - the lifecycle worker's pass, the check  *)
(* and repair of a data directory, the rotation of master keys - side by    *)
(* side. They share no state here: each behaviour is one of them, and the   *)
(* others stand still.                                                      *)
EXTENDS MCLifecycle, MCMasterKey, Fsck

VARIABLE side

sides == <<side, vars, mkvars, fvars>>

\* Standing still.
LifecycleOff == Init /\ status = "Off" /\ cfg = CHOOSE c \in Configs : TRUE
FsckOff ==
  /\ bstatus = [b \in FBuckets |-> "none"]
  /\ versions = {} /\ pointers = {} /\ upload = {} /\ index = {} /\ part = {} /\ broken = {}
  /\ data = [f \in File |-> "none"]
  /\ stage = "idle" /\ scope = {} /\ report = {} /\ doomed = {} /\ losses = 0 /\ stops = 0

\* Either bucket "b" alone, or two with at most one version or part each.
FewRecords ==
  \/ bstatus["c"] = "none" /\ \A x \in Blobs : data[<<"c", x>>] = "none"
  \/ /\ \A b \in FBuckets : data[<<b, 2>>] = "none"
     /\ \A v \in versions : v.key = "k" /\ v.seq = 1

MaintenanceInit ==
  \/ side = "lifecycle" /\ Init /\ MkInit /\ FsckOff
  \/ side = "keys" /\ LifecycleOff /\ MkInit /\ FsckOff
  \/ side = "fsck" /\ LifecycleOff /\ MkInit /\ FInit /\ FewRecords

\* The worker and the command may come to an end, the bounds see to that; the
\* processes that use master keys may not wait for one another for ever.
Stopped == side # "keys" /\ UNCHANGED sides

\* Uploads are of the first key, and so are versions with a tag and one that a
\* behaviour begins with.
LifecycleNext ==
  /\ Next
  /\ \A u \in uploads' : u.key = 1
  /\ ops = 0 => \A v \in put' : v.key = 1
  /\ \A v \in put' \cup vers' : v.key # 1 => v.tag = "any"

KeysInUse ==
  {check} \cup {wrapped[r] : r \in Records} \cup file.all \cup UNION {proc[p].ring.all : p \in Procs}

\* Two keys in the environment and one in the file, or the other way round.
KeysNext ==
  /\ MkNext
  /\ made' = MaxKeys => Cardinality(KeysInUse' \cap EnvKeys) < 2

\* Records are damaged where there is one bucket.
FsckNext ==
  /\ FNext
  /\ broken' # {} => bstatus["c"] = "none" /\ \A x \in Blobs : data[<<"c", x>>] = "none"

MaintenanceNext ==
  \/ side = "lifecycle" /\ LifecycleNext /\ UNCHANGED <<side, mkvars, fvars>>
  \/ side = "keys" /\ KeysNext /\ UNCHANGED <<side, vars, fvars>>
  \/ side = "fsck" /\ FsckNext /\ UNCHANGED <<side, vars, mkvars>>
  \/ Stopped

\* The states of the three are where their code can be.
MaintenanceTypeOK == TypeOK /\ KeyTypeOK

MaintenanceSpec == MaintenanceInit /\ [][MaintenanceNext]_sides
=============================================================================

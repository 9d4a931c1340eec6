----------------------------- MODULE CertReload -----------------------------
(***************************************************************************)
(* The TLS certificate in service (server/tlsreload.go, selfsigned.go): it  *)
(* is loaded from two files, polled for changes and swapped behind a        *)
(* pointer, while an operator replaces the files one by one, certificates   *)
(* expire, and the server dies and is started again.                        *)
(*                                                                         *)
(* Abstracted: what a certificate file holds is the number of its issue.    *)
(* Among the operator's, issue 2 renews issue 1 for the same private key    *)
(* and issue 3 is the leaf of issue 2 with another chain; every other issue *)
(* has a leaf and a key of its own, as each self-signed one has. What       *)
(* identifies a version of a file (its size and time) is the number of the  *)
(* write that made it. The two files are looked at in one step.             *)
(***************************************************************************)
EXTENDS Naturals

CONSTANTS
  Sources,      \* "files": the operator's pair; "self-signed": the server's own
  MaxIssues,    \* bound: certificates issued
  MaxWrites,    \* bound: files written or deleted
  MaxTlsCrashes \* bound: deaths of the server

ASSUME CertAssumption ==
  /\ Sources \subseteq {"files", "self-signed"}
  /\ MaxIssues \in Nat \ {0} /\ MaxWrites \in Nat /\ MaxTlsCrashes \in Nat

VARIABLES
  source,   \* which of the two the server is configured for
  certFile, \* tls.crt: what it holds and the write that made it
  keyFile,  \* tls.key
  writes,   \* writes so far
  issued,   \* certificates issued so far
  expired,  \* the leaves that are no longer valid
  cur,      \* certSource.cur: the certificate in service and its files' identity
  loader,   \* the reload under way: certSource.mu allows for one
  torn,     \* history: tls.crt was replaced between the load of cur and the look at it
  deaths

tvars == <<source, certFile, keyFile, writes, issued, expired, cur, loader, torn, deaths>>

NoFile == [holds |-> 0, at |-> 0]
NoCert == [issue |-> 0, stat |-> <<0, 0>>]
IdleLoader == [pc |-> "idle", cert |-> 0, key |-> 0, issue |-> 0, torn |-> FALSE,
               starting |-> FALSE]

\* The private key of an issue: generateSelfSigned always makes a new one.
KeyOf(issue) == IF source = "files" /\ issue \in {2, 3} THEN 1 ELSE issue

\* The leaf of an issue, which is what its fingerprint is of.
LeafOf(issue) == IF source = "files" /\ issue = 3 THEN 2 ELSE issue

\* Mutant: only the key's file is looked at.
StatKeyOnly == <<0, keyFile.at>>

\* statPair
StatPair == <<certFile.at, keyFile.at>>

TInit ==
  /\ source \in Sources
  /\ certFile = [holds |-> 1, at |-> 1] /\ keyFile = [holds |-> 1, at |-> 2]
  /\ writes = 2 /\ issued = 1
  /\ expired = {}
  /\ cur = NoCert
  /\ loader = [IdleLoader EXCEPT !.pc = "cert", !.starting = TRUE]
  /\ torn = FALSE
  /\ deaths = 0

FilesUnchanged == UNCHANGED <<certFile, keyFile, writes>>

-----------------------------------------------------------------------------
(* load *)

\* tls.LoadX509KeyPair reads one file ...
ReadCert ==
  /\ loader.pc = "cert"
  /\ loader' = [loader EXCEPT !.pc = "key", !.cert = certFile.holds]
  /\ FilesUnchanged /\ UNCHANGED <<source, issued, expired, cur, torn, deaths>>

\* ... and then the other. load: the operator's pair must fit and be valid;
\* loadOrCreateSelfSigned: a pair that is missing or expired is replaced by a
\* new one, any other that does not fit is an error.
ReadKey ==
  LET c == loader.cert
      k == keyFile.holds
      fits == c # 0 /\ k = KeyOf(c)
      fresh == fits /\ LeafOf(c) \notin expired
      renews == /\ source = "self-signed"
                /\ c = 0 \/ k = 0 \/ (fits /\ ~fresh)
  IN /\ loader.pc = "key"
     /\ loader' = [loader EXCEPT
          !.key = k, !.issue = IF fresh THEN c ELSE 0,
          !.pc = IF fresh THEN "stat" ELSE IF renews THEN "generate" ELSE "failed"]
     /\ FilesUnchanged /\ UNCHANGED <<source, issued, expired, cur, torn, deaths>>

\* writeSelfSigned: the key is written first ...
WriteKey ==
  /\ loader.pc = "generate"
  /\ issued < MaxIssues /\ writes < MaxWrites
  /\ issued' = issued + 1
  /\ writes' = writes + 1
  /\ keyFile' = [holds |-> KeyOf(issued + 1), at |-> writes + 1]
  /\ loader' = [loader EXCEPT !.pc = "write", !.issue = issued + 1]
  /\ UNCHANGED <<source, certFile, expired, cur, torn, deaths>>

\* ... and then the certificate.
WriteCert ==
  /\ loader.pc = "write" /\ writes < MaxWrites
  /\ writes' = writes + 1
  /\ certFile' = [holds |-> loader.issue, at |-> writes + 1]
  /\ loader' = [loader EXCEPT !.pc = "stat", !.torn = FALSE]
  /\ UNCHANGED <<source, keyFile, issued, expired, cur, torn, deaths>>

\* reload, with what load returned: when the fingerprint is that of the
\* certificate in service, this one stays, chain included, with the files' new
\* identity; another one is swapped in.
Swap ==
  /\ loader.pc = "stat"
  /\ cur' = IF LeafOf(cur.issue) = LeafOf(loader.issue) THEN [cur EXCEPT !.stat = StatPair]
            ELSE [issue |-> loader.issue, stat |-> StatPair]
  /\ torn' = loader.torn
  /\ loader' = IdleLoader
  /\ FilesUnchanged /\ UNCHANGED <<source, issued, expired, deaths>>

\* A failed reload leaves the certificate in service; a failed start ends the
\* server, which the operator starts again.
ReloadFails ==
  /\ loader.pc = "failed"
  /\ loader' = IF loader.starting THEN [loader EXCEPT !.pc = "down"] ELSE IdleLoader
  /\ FilesUnchanged /\ UNCHANGED <<source, issued, expired, cur, torn, deaths>>

-----------------------------------------------------------------------------
(* Who calls reload *)

Reload == loader' = [IdleLoader EXCEPT !.pc = "cert"]

\* check: the files are not those of the certificate in service, or a
\* self-signed one has expired.
Poll ==
  /\ loader.pc = "idle" /\ cur # NoCert
  /\ \/ StatPair # cur.stat
     \/ source = "self-signed" /\ LeafOf(cur.issue) \in expired
  /\ Reload
  /\ FilesUnchanged /\ UNCHANGED <<source, issued, expired, cur, torn, deaths>>

\* ReloadTLS, on SIGHUP
ReloadTLS ==
  /\ loader.pc = "idle" /\ cur # NoCert
  /\ Reload
  /\ FilesUnchanged /\ UNCHANGED <<source, issued, expired, cur, torn, deaths>>

\* The server is killed wherever it is, or was not able to start, and is
\* started again: ListenAndServe loads before it serves.
RestartTls ==
  /\ loader.pc = "down" \/ deaths < MaxTlsCrashes
  /\ deaths' = IF loader.pc = "down" THEN deaths ELSE deaths + 1
  /\ cur' = NoCert
  /\ loader' = [IdleLoader EXCEPT !.pc = "cert", !.starting = TRUE]
  /\ torn' = FALSE
  /\ FilesUnchanged /\ UNCHANGED <<source, issued, expired>>

-----------------------------------------------------------------------------
(* The operator and time *)

\* The load under way has read the certificate that is being replaced.
Tears == loader' = [loader EXCEPT !.torn = @ \/ loader.pc \in {"key", "stat"}]

Issue ==
  /\ source = "files" /\ issued < MaxIssues
  /\ issued' = issued + 1
  /\ FilesUnchanged /\ UNCHANGED <<source, expired, cur, loader, torn, deaths>>

\* A file is replaced, in either order, or deleted so that it is made anew.
InstallCert(c) ==
  /\ IF source = "files" THEN c \in 1..issued ELSE c = 0
  /\ c # certFile.holds /\ writes < MaxWrites
  /\ writes' = writes + 1
  /\ certFile' = IF c = 0 THEN NoFile ELSE [holds |-> c, at |-> writes + 1]
  /\ Tears
  /\ UNCHANGED <<source, keyFile, issued, expired, cur, torn, deaths>>

InstallKey(k) ==
  /\ IF source = "files" THEN k \in {KeyOf(c) : c \in 1..issued} ELSE k = 0
  /\ k # keyFile.holds /\ writes < MaxWrites
  /\ writes' = writes + 1
  /\ keyFile' = IF k = 0 THEN NoFile ELSE [holds |-> k, at |-> writes + 1]
  /\ UNCHANGED <<source, certFile, issued, expired, cur, loader, torn, deaths>>

ExpireCert(c) ==
  /\ c = LeafOf(c) /\ c \notin expired
  /\ expired' = expired \cup {c}
  /\ FilesUnchanged /\ UNCHANGED <<source, issued, cur, loader, torn, deaths>>

TNext ==
  \/ ReadCert
  \/ ReadKey
  \/ WriteKey
  \/ WriteCert
  \/ Swap
  \/ ReloadFails
  \/ Poll
  \/ ReloadTLS
  \/ RestartTls
  \/ Issue
  \/ \E c \in 0..issued : InstallCert(c)
  \/ \E k \in 0..issued : InstallKey(k)
  \/ \E c \in 1..issued : ExpireCert(c)

TSpec == TInit /\ [][TNext]_tvars

-----------------------------------------------------------------------------
(* Properties *)

\* The poll has the last word: while it finds nothing to do, the certificate
\* in service is the one in the file, whatever was written half, failed to
\* load, or was asked for by a signal before. (Two cases are excepted, because
\* there it does not hold: a certificate file replaced between its load and the
\* look at its identity, which load takes afterwards, is not noticed; and of a
\* file that brings a new chain for the same leaf only the leaf is in service,
\* since reload compares fingerprints.)
PollSeesChange ==
  cur # NoCert /\ loader.pc = "idle" /\ StatPair = cur.stat /\ ~torn =>
    LeafOf(cur.issue) = LeafOf(certFile.holds)
=============================================================================

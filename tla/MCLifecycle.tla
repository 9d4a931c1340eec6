---------------------------- MODULE MCLifecycle ----------------------------
(* Small instances of Lifecycle for TLC.                                   *)
EXTENDS Lifecycle

\* A rule that does nothing yet.
Blank == [enabled |-> TRUE, keys |-> Keys, tag |-> "any", exp |-> [kind |-> "none", n |-> 0],
          ncExp |-> [days |-> 0, keep |-> 0], trans |-> {}, ncTrans |-> {}, abort |-> 0]

\* Current versions with tag "a" expire after a day.
ExpireTagged == [Blank EXCEPT !.tag = "a", !.exp = [kind |-> "days", n |-> 1]]
\* Noncurrent versions go after a day, markers with nothing below at once.
CleanUp == [Blank EXCEPT !.exp = [kind |-> "marker", n |-> 1], !.ncExp = [days |-> 1, keep |-> 0]]
\* One newer noncurrent version is kept, and made colder.
KeepOne == [Blank EXCEPT !.ncExp = [days |-> 1, keep |-> 1],
                         !.ncTrans = {[days |-> 0, keep |-> 0, class |-> 1]}]
\* Current versions are colder from the start and go on the first day; uploads last a day.
Dated == [Blank EXCEPT !.trans = {[kind |-> "date", n |-> 0, class |-> 1]},
                       !.exp = [kind |-> "date", n |-> Day], !.abort = 1]
\* More days than a time.Duration holds, for the last key.
Centuries == [Blank EXCEPT !.keys = {NumKeys}, !.exp = [kind |-> "days", n |-> 3]]

MCConfigs == {{ExpireTagged, CleanUp}, {KeepOne, Dated, Centuries}}
=============================================================================

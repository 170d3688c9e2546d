-------------------------------- MODULE Clip --------------------------------
(***************************************************************************)
(* What a reader of a clip promises: edit units numbered from 0, that are  *)
(* read one after the other from a position that can be moved.             *)
(*                                                                         *)
(* A read error may make the clip shorter for good, but never so that the  *)
(* reader loses its place.                                                 *)
(***************************************************************************)
EXTENDS Integers

CONSTANT Targets   \* the positions that are sought

VARIABLES
  length,    \* the number of edit units that can be read
  position,  \* the next one to be read
  package,   \* the one that was read last, or None
  call       \* the last call: what it was, its argument and its outcome

vars == <<length, position, package, call>>

None == -1

Called(op, arg, ok, error) == [op |-> op, arg |-> arg, ok |-> ok, error |-> error]

\* A call that meets a read error may find the clip to end anywhere from the
\* position on.
Shortened(error) ==
  IF error THEN length' \in position .. length ELSE UNCHANGED length

Init ==
  /\ length \in Nat
  /\ position = 0
  /\ package = None
  /\ call = Called("open", 0, TRUE, FALSE)

Read(error) ==
  /\ call' = Called("read", 0, TRUE, error)
  /\ position < length
  /\ position' = position + 1
  /\ package' = position
  /\ UNCHANGED length

\* The package that the caller got before may be overwritten.
ReadFails(error) ==
  /\ call' = Called("read", 0, FALSE, error)
  /\ position >= length \/ error
  /\ UNCHANGED position
  /\ package' \in {package, None}
  /\ Shortened(error)

\* The end of a clip is a position too, when it is not known to be the end.
Seek(target, error) ==
  /\ call' = Called("seek", target, TRUE, error)
  /\ target <= length
  /\ position' = target
  /\ UNCHANGED <<length, package>>

SeekFails(target, error) ==
  /\ call' = Called("seek", target, FALSE, error)
  /\ target >= length \/ error
  /\ UNCHANGED <<position, package>>
  /\ Shortened(error)

\* GetDuration and DetermineDuration.
Query(op, error) ==
  /\ call' = Called(op, 0, TRUE, error)
  /\ UNCHANGED <<position, package>>
  /\ Shortened(error)

Next ==
  \E error \in BOOLEAN :
    \/ Read(error) \/ ReadFails(error)
    \/ \E target \in Targets : Seek(target, error) \/ SeekFails(target, error)
    \/ \E op \in {"duration", "determine"} : Query(op, error)

Spec == Init /\ [][Next]_vars
=============================================================================

------------------------------ MODULE WorkQueue ------------------------------
(***************************************************************************)
(* What a request queue promises to the workers that share it, whatever     *)
(* client stands between them and the platform: a queued request that is    *)
(* not finished is in the hands of at most one worker, and a finished one   *)
(* in nobody's, until somebody asks for it to be done again.                *)
(***************************************************************************)
EXTENDS Naturals

CONSTANTS Workers, Requests, NoRequest  \* no request at all

VARIABLES
  queued,    \* requests the queue knows
  finished,  \* requests that are done
  holder     \* the request each worker has

vars == <<queued, finished, holder>>

Free(r) == \A w \in Workers : holder[w] # r

Init ==
  /\ queued \subseteq Requests
  /\ finished \subseteq queued
  /\ holder = [w \in Workers |-> NoRequest]

(* Somebody adds requests, which makes those they are about available.      *)
Enqueue ==
  /\ queued \subseteq queued' /\ queued' \subseteq Requests
  /\ UNCHANGED <<finished, holder>>

Hand(w, r) ==
  /\ holder[w] = NoRequest
  /\ r \in queued \ finished /\ Free(r)
  /\ holder' = [holder EXCEPT ![w] = r]
  /\ UNCHANGED <<queued, finished>>

(* Workers give their requests back, or run out of the time they had them   *)
(* for.                                                                     *)
Release(W) ==
  /\ holder' = [w \in Workers |-> IF w \in W THEN NoRequest ELSE holder[w]]
  /\ UNCHANGED <<queued, finished>>

(* w is done with its request, and the queue knows it.                      *)
Finish(w) ==
  /\ holder[w] # NoRequest
  /\ finished' = finished \cup {holder[w]}
  /\ holder' = [holder EXCEPT ![w] = NoRequest]
  /\ UNCHANGED queued

(* The queue hears of a request somebody had and gave up, or of one that is *)
(* to be done again.                                                        *)
HearOf(r) ==
  /\ r \in queued /\ Free(r)
  /\ finished' \in {finished \cup {r}, finished \ {r}}
  /\ UNCHANGED <<queued, holder>>

Next ==
  \/ Enqueue
  \/ \E w \in Workers, r \in Requests : Hand(w, r)
  \/ \E W \in SUBSET Workers : Release(W)
  \/ \E w \in Workers : Finish(w)
  \/ \E r \in Requests : HearOf(r)

Spec == Init /\ [][Next]_vars

-----------------------------------------------------------------------------
(* No request is in two hands, and none that is done is in anybody's.       *)
Exclusive ==
  \A w \in Workers : holder[w] # NoRequest =>
    /\ holder[w] \in queued \ finished
    /\ \A u \in Workers \ {w} : holder[u] # holder[w]
=============================================================================

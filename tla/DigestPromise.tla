---------------------------- MODULE DigestPromise ----------------------------
(***************************************************************************)
(* What Mifluent promises about a digest, whatever the queue, the network  *)
(* and the worker do: it is called delivered only once all of it has       *)
(* reached its reader, and it never goes back to waiting.                  *)
(***************************************************************************)

CONSTANTS
    Sent,       \* digests that are sent to a chat or a mailbox
    OnlyShown   \* digests that are only shown on the web

Digests == Sent \cup OnlyShown

VARIABLES
    status,     \* digests.status, "none" before the digest is built
    reached     \* digests every message of which has reached the reader

vars == <<status, reached>>

Init == status = [d \in Digests |-> "none"] /\ reached = {}

Build(d) ==
    /\ status[d] = "none"
    /\ status' = [status EXCEPT ![d] = IF d \in OnlyShown THEN "delivered" ELSE "pending"]
    /\ UNCHANGED reached

Reach(d) == d \in Sent /\ reached' = reached \cup {d} /\ UNCHANGED status

Deliver(d) ==
    /\ d \in Sent /\ status[d] # "none" /\ d \in reached
    /\ status' = [status EXCEPT ![d] = "delivered"]
    /\ UNCHANGED reached

Fail(d) ==
    /\ d \in Sent /\ status[d] # "none"
    /\ status' = [status EXCEPT ![d] = "failed"]
    /\ UNCHANGED reached

Next == \E d \in Digests : Build(d) \/ Reach(d) \/ Deliver(d) \/ Fail(d)

Spec == Init /\ [][Next]_vars

=============================================================================

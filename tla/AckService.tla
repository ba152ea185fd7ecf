----------------------------- MODULE AckService -----------------------------
(***************************************************************************)
(* What ack-generator.sig promises to the layers above it: the two ends of *)
(* a channel send packets, an end is handed a packet of its peer at most   *)
(* once, and of each packet that carries data its sender hears once, that  *)
(* it was delivered only if the peer accepted it.  This is the channel     *)
(* that CuspStream stands on.                                              *)
(***************************************************************************)
EXTENDS Integers, FiniteSets

CONSTANTS Ends, Peer,      \* the two ends, and who is at the other
          Tsns             \* the numbers of packets

VARIABLES sent,            \* end -> the packets it sent
          owed,            \* those whose sender has not heard of them
          due,             \* their number, as congestion control counts it
          accepted,        \* end -> the packets of its peer it accepted
          handed,          \* how many packets were handed up and accepted
          acked            \* the packets whose sender heard "delivered"

sVars == <<sent, owed, due, accepted, handed, acked>>

SInit ==
    /\ sent = [e \in Ends |-> {}] /\ owed = sent /\ accepted = sent /\ acked = sent
    /\ due = [e \in Ends |-> 0] /\ handed = due

SSend(e) ==
    \E t \in Tsns \ sent[e] :
        /\ sent' = [sent EXCEPT ![e] = @ \cup {t}]
        /\ \/ UNCHANGED <<owed, due>>
           \/ /\ owed' = [owed EXCEPT ![e] = @ \cup {t}]
              /\ due' = [due EXCEPT ![e] = @ + 1]
        /\ UNCHANGED <<accepted, handed, acked>>

\* A packet tells e of the fate of some of its own.
SHear(e) ==
    \E yes \in SUBSET (owed[e] \cap accepted[Peer[e]]), no \in SUBSET owed[e] :
        /\ yes \cap no = {}
        /\ acked' = [acked EXCEPT ![e] = @ \cup yes]
        /\ owed' = [owed EXCEPT ![e] = @ \ (yes \cup no)]
        /\ due' = [due EXCEPT ![e] = @ - Cardinality(yes \cup no)]

\* The packet itself is accepted, for the first time, or not.
SReceive(e) ==
    /\ SHear(e)
    /\ \/ UNCHANGED <<accepted, handed>>
       \/ \E t \in sent[Peer[e]] \ accepted[e] :
             /\ accepted' = [accepted EXCEPT ![e] = @ \cup {t}]
             /\ handed' = [handed EXCEPT ![e] = @ + 1]
    /\ UNCHANGED sent

SNext == \E e \in Ends : SSend(e) \/ SReceive(e)

SSpec == SInit /\ [][SNext]_sVars
=============================================================================

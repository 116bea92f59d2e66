--------------------------- MODULE AlertRecipients ---------------------------
(***************************************************************************)
(* What the two alerting loops of the worker have in common: one message   *)
(* goes to every recipient, one after the other, and counts as delivered   *)
(* when all requests have succeeded; the first failure ends the attempt.   *)
(* Each loop has its own message on the way; in an instance one loop runs. *)
(***************************************************************************)
EXTENDS Integers, FiniteSets

CONSTANTS
  Chats,     \* the recipients, in the order of load_telegram_recipient_chat_ids
  MaxFaults  \* bound: failing requests and passes that end midway

ASSUME ChatsAssumption == Chats \subseteq Nat /\ Chats # {} /\ IsFiniteSet(Chats)
ASSUME FaultsAssumption == MaxFaults \in Nat

VARIABLES
  reachable,  \* whether there is a bot token and a recipient
  left,       \* the recipients that the message on the way has not been sent to
  faults      \* faults so far

alertVars == <<reachable, left, faults>>

AlertTypeOK == reachable \in BOOLEAN /\ left \subseteq Chats /\ faults \in 0..MaxFaults

AlertInit == reachable \in BOOLEAN /\ left = {} /\ faults = 0

Fault == faults < MaxFaults /\ faults' = faults + 1

First(S) == CHOOSE x \in S : \A y \in S : x <= y

\* The token is read at the start of a pass, the recipients for each message.
ReachabilityChanges == reachable' = ~reachable /\ UNCHANGED <<left, faults>>

\* Mutant: one recipient is enough.
LastRecipientAny == left # {}

\* The message on the way has only one recipient left.
LastRecipient == left = {First(left)}

\* A request succeeds: the message goes on to the next recipient.
SendsOne == left' = left \ {First(left)} /\ UNCHANGED <<reachable, faults>>

\* A request fails: the others are not sent the message.
GivesUp == Fault /\ left' = {} /\ UNCHANGED reachable

=============================================================================

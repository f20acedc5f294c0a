---------------------------- MODULE OutreachSlots ----------------------------
(***************************************************************************)
(* What governed sending promises, without a database, a clock or a        *)
(* dispatcher: every recipient is a slot.  A message must hold the slot of  *)
(* its recipient while it is sent, a slot is given back only by a message   *)
(* that was never delivered, and so no recipient ever gets two messages.    *)
(* LiveSend implements this specification.                                  *)
(***************************************************************************)

CONSTANTS
    Message,        \* every message that may ever be attempted
    RecipientOf     \* the recipient identity a message is addressed to

VARIABLES
    holding,        \* the messages that occupy the slot of their recipient
    inbox           \* the messages that were delivered

slotVars == <<holding, inbox>>

SlotInit == holding = {} /\ inbox = {}

Free(m) == \A h \in holding : RecipientOf[h] # RecipientOf[m]

\* m takes the free slot of its recipient.
Acquire(m) ==
    /\ Free(m)
    /\ holding' = holding \union {m}
    /\ UNCHANGED inbox

\* m gives the slot back: it was not delivered and never will be.
Release(m) ==
    /\ m \in holding
    /\ m \notin inbox
    /\ holding' = holding \ {m}
    /\ UNCHANGED inbox

\* m reaches its recipient while it holds the slot.
Deliver(m) ==
    /\ m \in holding
    /\ m \notin inbox
    /\ inbox' = inbox \union {m}
    /\ UNCHANGED holding

SlotNext == \E m \in Message : Acquire(m) \/ Release(m) \/ Deliver(m)

SlotSpec == SlotInit /\ [][SlotNext]_slotVars
==============================================================================

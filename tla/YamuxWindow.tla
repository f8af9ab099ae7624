---------------------------- MODULE YamuxWindow ----------------------------
(***************************************************************************)
(* What the windows of libp2p/muxers/yamux/yamux.nim promise for one       *)
(* direction of a stream, whatever the sizes: a sender that spends only    *)
(* credit it has, and a receiver that polices its window, never disagree.  *)
(* YamuxChannel is shown to implement this specification in both           *)
(* directions.                                                             *)
(***************************************************************************)
EXTENDS Integers

CONSTANTS
    DefaultWindow,   \* what the sender assumes before it hears of the receiver
    MaxWindow        \* bound: the largest window the receiver keeps

\* What the theorems ask of the constants.
WindowAssumption ==
    /\ DefaultWindow \in Nat /\ MaxWindow \in Nat
    /\ DefaultWindow <= MaxWindow

VARIABLES
    credit,    \* what the sender may still send
    flying,    \* bytes sent and not yet handled by the receiver
    granted,   \* credit sent and not yet handled by the sender
    window,    \* what the receiver is ready to accept
    receiver   \* whether it still compares frames with its window, and keeps count

vars == <<credit, flying, granted, window, receiver>>

policing == receiver = "policing"

\* An initiator has announced a window above the default with its Syn.
Init ==
    /\ credit = DefaultWindow
    /\ flying = 0
    /\ granted \in 0..(MaxWindow - DefaultWindow)
    /\ window = DefaultWindow + granted
    /\ receiver = "policing"

\* The sender spends n of its credit: sendLoop.
Spend(n) ==
    /\ n <= credit
    /\ credit' = credit - n
    /\ flying' = flying + n
    /\ UNCHANGED <<granted, window, receiver>>

\* The receiver grants d: open, updateRecvWindow.  A sender that is reset or
\* gone ignores it.  A receiver that grants what it does not count is done.
Grant(d) ==
    /\ receiver' \in {receiver, "done"}
    /\ window' = IF policing' THEN window + d ELSE 0
    /\ policing' => window' <= MaxWindow
    /\ granted' \in {granted, granted + d}
    /\ UNCHANGED <<credit, flying>>

\* The receiver handles a frame of n bytes.  It may grant d for it, or, when the
\* stream is gone and its budget is used up, stop policing.
Accept(n, d) ==
    /\ n <= flying
    /\ flying' = flying - n
    /\ receiver' \in {receiver, "done"}
    /\ window' = IF policing' THEN window - n + d ELSE 0
    /\ policing' => window' <= MaxWindow
    /\ granted' \in {granted, granted + d}
    /\ UNCHANGED credit

\* The sender handles a grant of d and at once spends n: a window update that
\* wakes sendLoop.  At the clamp of sendWindow it loses credit.
Earn(d, n) ==
    /\ d <= granted /\ n <= credit + d
    /\ granted' = granted - d
    /\ flying' = flying + n
    /\ credit' \in 0..(credit + d - n)
    /\ UNCHANGED <<window, receiver>>

\* The sender is reset or gone: it sends no more, grants on their way are lost.
Abandon ==
    /\ credit' = 0 /\ granted' = 0
    /\ UNCHANGED <<flying, window, receiver>>

\* The receiver hears of the sender's reset, after everything it sent.
Forget ==
    /\ credit = 0 /\ granted = 0 /\ flying = 0
    /\ window' = 0
    /\ UNCHANGED <<credit, flying, granted, receiver>>

\* The receiver stops comparing: the stream ended with no budget left, or the
\* session ended, for the sender too if it is the sender who ended it.
StopPolicing ==
    /\ receiver' = "done"
    /\ window' = 0
    /\ \/ credit' = 0 /\ granted' = 0
       \/ UNCHANGED <<credit, granted>>
    /\ UNCHANGED flying

\* A frame or a grant; a receiver that has lost count may have granted too much.
Amounts == 0..(3 * MaxWindow)

Next ==
    \/ \E n, d \in Amounts : Spend(n) \/ Grant(d) \/ Accept(n, d) \/ Earn(d, n)
    \/ Abandon \/ Forget \/ StopPolicing

Spec == Init /\ [][Next]_vars

TypeOK ==
    /\ credit \in Nat /\ flying \in Nat /\ granted \in Nat /\ window \in Nat
    /\ receiver \in {"policing", "done"}

\* Everything the sender has sent, may send, or will be allowed to send fits the
\* receiver's window.
Conserved == policing => credit + flying + granted <= window

\* A frame on its way is never larger than the window it meets: the receiver
\* never has cause to raise "Peer exhausted the recvWindow".
NeverOverrun == policing => flying <= window
=============================================================================

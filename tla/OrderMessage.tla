----------------------------- MODULE OrderMessage -----------------------------
(***************************************************************************)
(* The WhatsApp message of a new order, cut to fit                         *)
(* (build_order_confirmation_message of notifications/whatsapp/            *)
(* message_builder.py).                                                    *)
(*                                                                         *)
(* Grain.  A step is a turn of the loop that adds an item's line.          *)
(*                                                                         *)
(* Data.  A text is its length; an item's line has no line break of its    *)
(* own.  The header and the footer, which every message has, are one.      *)
(***************************************************************************)
EXTENDS Integers, Sequences, Functions

CONSTANTS
    Orders,    \* the lengths of the item lines of an order, in sequences
    Frames,    \* the lengths that header and footer may have together
    MaxChars   \* the settings of whatsapp_message_max_chars

VARIABLES
    item_lines,  \* the lengths of the items' lines
    frame,       \* that of the header and the footer
    max_chars,   \* StoreSettings.whatsapp_message_max_chars
    included,    \* how many lines are in so far
    message      \* the message, once it is built: its length and its notice

vars == <<item_lines, frame, max_chars, included, message>>

Building == [length |-> 0, omitted |-> 0]

Init ==
    /\ item_lines \in Orders /\ frame \in Frames /\ max_chars \in MaxChars
    /\ included = 0
    /\ message = Building

(* The first lines, with the line breaks between them.                     *)
Joined(n) ==
    FoldFunctionOnSet(+, 0, item_lines, 1..n)
    + IF n = 0 THEN 0 ELSE n - 1

Digits(n) == IF n < 10 THEN 1 ELSE IF n < 100 THEN 2 ELSE 3

(* A line break and "...and 7 more items", with an ellipsis of one.        *)
Notice(remaining) == 6 + Digits(remaining) + 10 + IF remaining = 1 THEN 0 ELSE 1

(* Mutant: the notice is left out of the reckoning.                        *)
WithoutNotice(n) == frame + Joined(n)

(* What the loop compares, also when nothing remains to be told of.        *)
Candidate(n) == frame + Joined(n) + Notice(Len(item_lines) - n)

Whole ==
    /\ message = Building /\ included = 0
    /\ frame + Joined(Len(item_lines)) <= max_chars
    /\ message' = [length |-> frame + Joined(Len(item_lines)), omitted |-> 0]
    /\ UNCHANGED <<item_lines, frame, max_chars, included>>

Cut == frame + Joined(Len(item_lines)) > max_chars
Fits == included < Len(item_lines) /\ Candidate(included + 1) <= max_chars

Include ==
    /\ message = Building /\ Cut
    /\ Fits
    /\ included' = included + 1
    /\ UNCHANGED <<item_lines, frame, max_chars, message>>

Finish ==
    /\ message = Building /\ Cut
    /\ ~Fits
    /\ LET remaining == Len(item_lines) - included
       IN  message' = [length |-> frame + Joined(included)
                                    + IF remaining = 0 THEN 0 ELSE Notice(remaining),
                       omitted |-> remaining]
    /\ UNCHANGED <<item_lines, frame, max_chars, included>>

Next == Whole \/ Include \/ Finish

-----------------------------------------------------------------------------
(* Properties.                                                             *)

(* The reckoning, apart from the loop: the first n lines and the notice.   *)
LengthOf(n) ==
    frame + Joined(n)
    + IF n = Len(item_lines) THEN 0 ELSE Notice(Len(item_lines) - n)

(* A message that can be kept within the limit is, and it tells as many    *)
(* items as any message within the limit would, and of the others how many *)
(* they are.  One that cannot has no item at all.                          *)
MessageFits ==
    message # Building =>
        LET told == Len(item_lines) - message.omitted
            fitting == {n \in 0..Len(item_lines) : LengthOf(n) <= max_chars}
        IN  /\ message.length = LengthOf(told)
            /\ IF fitting = {} THEN told = 0
               ELSE told \in fitting /\ \A n \in fitting : n <= told
=============================================================================

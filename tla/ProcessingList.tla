--------------------------- MODULE ProcessingList ---------------------------
(***************************************************************************)
(* What the processing lists of the voice processor promise the driver:    *)
(* one list of hardware voices per class, on which a voice is put at the   *)
(* top and from which it is taken wherever it is, the others keeping their *)
(* order.  VoiceList implements this with links, three registers and the   *)
(* pointer surgery of apu_isr.                                             *)
(***************************************************************************)
EXTENDS Integers, Sequences

CONSTANTS NumHw, Max3D
VARIABLE list

Classes == {"3D", "2D"}
ClassOf(i) == IF i < Max3D THEN "3D" ELSE "2D"
On(c) == LET s == list[c] IN {s[k] : k \in DOMAIN s}

Init == list = [c \in Classes |-> <<>>]
Put(i) ==
  /\ i \notin On(ClassOf(i))
  /\ list' = [list EXCEPT ![ClassOf(i)] = <<i>> \o @]
Without(s, i) ==
  LET k == CHOOSE n \in DOMAIN s : s[n] = i
  IN IF \E n \in DOMAIN s : s[n] = i
     THEN [n \in 1 .. Len(s) - 1 |-> IF n < k THEN s[n] ELSE s[n + 1]]
     ELSE s
Take(i) ==
  /\ i \in On(ClassOf(i))
  /\ list' = [list EXCEPT ![ClassOf(i)] = Without(@, i)]
Next == \E i \in 0 .. NumHw - 1 : Put(i) \/ Take(i)
Spec == Init /\ [][Next]_list
=============================================================================

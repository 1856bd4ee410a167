------------------------------ MODULE SharedList ------------------------------
(***************************************************************************)
(* What a collaborative text promises, with no algorithm in it: every site *)
(* shows a list of elements, a step of a site only adds elements to its    *)
(* list or marks some of them as gone, new elements are its own or those   *)
(* of another site, and no two sites ever order two elements differently.  *)
(***************************************************************************)
EXTENDS Integers, Sequences, SequencesExt

CONSTANT Site

VARIABLES
  text,  \* text[s]: the elements s holds, in the order it shows them
  gone   \* gone[s]: those of them it no longer shows

Elements(list) == ToSet(list)

Before(list, a, b) ==
  \E i, j \in 1..Len(list) : i < j /\ list[i] = a /\ list[j] = b

Agree(one, other) ==
  \A i, j \in 1..Len(one) : i < j => ~Before(other, one[j], one[i])

Init == text = [s \in Site |-> <<>>] /\ gone = [s \in Site |-> {}]

\* Elements are added and none is lost or moved.
Extends(longer, shorter) ==
  /\ Elements(shorter) \subseteq Elements(longer)
  /\ Agree(shorter, longer)
  /\ \A i, j \in 1..Len(longer) : longer[i] = longer[j] => i = j

Step(s) ==
  LET others == UNION {Elements(text[t]) : t \in Site \ {s}}
      new == Elements(text'[s]) \ Elements(text[s])
  IN  /\ Extends(text'[s], text[s])
      /\ new \subseteq others \/ (new \cap others = {} /\ \A a, b \in new : a = b)
      /\ gone[s] \subseteq gone'[s]
      /\ gone'[s] \subseteq Elements(text'[s])
      /\ \A t \in Site \ {s} : text'[t] = text[t] /\ gone'[t] = gone[t]
      /\ \A t \in Site : Agree(text'[s], text'[t])

Spec == Init /\ [][\E s \in Site : Step(s)]_<<text, gone>>
=============================================================================

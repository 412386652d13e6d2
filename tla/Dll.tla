-------------------------------- MODULE Dll --------------------------------
(***************************************************************************)
(* The intrusive doubly linked lists of cosmopolitan libc (dll_...), as the  *)
(* server uses them for its workers and its slots.  A list is the sequence *)
(* of its elements, first to last.  An element is linked into at most one  *)
(* place of one list, so removing it needs no search: it is wherever its   *)
(* links say it is.                                                        *)
(***************************************************************************)
EXTENDS Integers, Sequences

\* The elements of a list, as a set.
Members(list) == {list[i] : i \in 1..Len(list)}

\* The place of an element that is in the list.
PlaceOf(list, e) == CHOOSE i \in 1..Len(list) : list[i] = e

\* dll_remove: unlink an element that is in the list.
DllRemove(list, e) ==
    LET p == PlaceOf(list, e)
    IN  [i \in 1..(Len(list) - 1) |-> IF i < p THEN list[i] ELSE list[i + 1]]

\* dll_make_first, dll_make_last: link an element that is in no list.
DllMakeFirst(list, e) == <<e>> \o list
DllMakeLast(list, e) == Append(list, e)

\* dll_last of a list that is not empty.
DllLast(list) == list[Len(list)]

\* No element is linked twice.
NoDuplicates(list) ==
    \A i, j \in 1..Len(list) : list[i] = list[j] => i = j
=============================================================================

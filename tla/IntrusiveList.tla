--------------------------- MODULE IntrusiveList ---------------------------
(***************************************************************************)
(* IntrusiveList: rings of links through an anchor, on which the ready      *)
(* queues, blocking queues, marker and unmap lists are built.  Assignments  *)
(* are made one by one, because the links they use may be the same one (the *)
(* anchor of an empty list is its own neighbour).                           *)
(***************************************************************************)
EXTENDS Integers, Sequences, SequencesExt

CONSTANTS
  ListAnchor,   \* anchors, one per list
  Elem          \* elements

Null == "nullptr"
Links == ListAnchor \cup Elem

ASSUME IntrusiveListAssumption == ListAnchor \cap Elem = {} /\ Null \notin Links

VARIABLES
  link,     \* link[x]: the prev and next pointers of x
  content,  \* content[a]: what the list is meant to hold
  chain     \* elements taken off a list together, linked to each other

ringVars == <<link, content, chain>>

ListInit ==
  /\ link = [x \in Links |-> IF x \in ListAnchor THEN [prev |-> x, next |-> x]
                             ELSE [prev |-> Null, next |-> Null]]
  /\ content = [a \in ListAnchor |-> <<>>]
  /\ chain = <<>>

OnList(x) == link[x].next # Null
InChain(x) == x \in ToSet(chain)
Ring(a) == <<a>> \o content[a] \o <<a>>
SetNext(l, x, y) == [l EXCEPT ![x].next = y]
SetPrev(l, x, y) == [l EXCEPT ![x].prev = y]

\* Mutant: the predecessor is changed before its successor is read.
InsertAfterSwapped(p, first, last) ==
  LET l1 == SetPrev(link, link[p].next, last)
      l2 == SetNext(l1, p, first)
      l3 == SetNext(l2, last, l2[p].next)
  IN SetPrev(l3, first, p)

(* insert_after(prev, first, last). *)
InsertAfter(p, first, last) ==
  LET l1 == SetPrev(link, link[p].next, last)
      l2 == SetNext(l1, last, l1[p].next)
      l3 == SetNext(l2, p, first)
  IN SetPrev(l3, first, p)

(* remove(elem), and remove(first, count) with the last one found. *)
Cut(first, last) ==
  LET l1 == SetNext(link, link[first].prev, link[last].next)
      l2 == SetPrev(l1, l1[last].next, l1[first].prev)
      l3 == SetPrev(l2, first, Null)
  IN SetNext(l3, last, Null)

(* The last of up to count elements, the fence being a's anchor. *)
LastOf(a, first, count) ==
  LET w[i \in 1..count] ==
        IF i = 1 THEN first
        ELSE IF link[w[i - 1]].next = a THEN w[i - 1] ELSE link[w[i - 1]].next
  IN w[count]

(* push_back and insert_after of one element: p is the anchor or on the     *)
(* list.                                                                     *)
Insert1(a, p, x) ==
  /\ ~OnList(x) /\ ~InChain(x)
  /\ \E i \in 1..(Len(content[a]) + 1) :
       /\ p = Ring(a)[i]
       /\ link' = InsertAfter(p, x, x)
       /\ content' = [content EXCEPT ![a] = InsertAt(@, i, x)]
  /\ UNCHANGED chain

PushBack(a, x) == Insert1(a, link[a].prev, x)

(* remove, pop_front, pop_back. *)
RemoveElem(a, x) ==
  /\ \E i \in DOMAIN content[a] :
       /\ x = content[a][i]
       /\ link' = Cut(x, x)
       /\ content' = [content EXCEPT ![a] = RemoveAt(@, i)]
  /\ UNCHANGED chain

PopFront(a) == content[a] # <<>> /\ RemoveElem(a, link[a].next)
PopBack(a) == content[a] # <<>> /\ RemoveElem(a, link[a].prev)

(* remove(first, count): a chain of at most count elements. *)
RemoveChain(a, i, count) ==
  /\ chain = <<>> /\ i \in DOMAIN content[a]
  /\ LET first == content[a][i]
         n == IF count > Len(content[a]) - i + 1 THEN Len(content[a]) - i + 1 ELSE count
     IN /\ link' = Cut(first, LastOf(a, first, count))
        /\ chain' = SubSeq(content[a], i, i + n - 1)
        /\ content' = [content EXCEPT ![a] = SubSeq(@, 1, i - 1) \o SubSeq(@, i + n, Len(@))]

(* splice_back of a chain. *)
SpliceBack(a) ==
  /\ chain # <<>>
  /\ link' = InsertAfter(link[a].prev, Head(chain), Last(chain))
  /\ content' = [content EXCEPT ![a] = @ \o chain]
  /\ chain' = <<>>

ListNext ==
  \E a \in ListAnchor :
    \/ \E x \in Elem : \E p \in Links : Insert1(a, p, x)
    \/ \E x \in Elem : PushBack(a, x) \/ RemoveElem(a, x)
    \/ PopFront(a) \/ PopBack(a) \/ SpliceBack(a)
    \/ \E i, n \in 1..(Len(content[a]) + 1) : RemoveChain(a, i, n)

ListSpec == ListInit /\ [][ListNext]_ringVars

-----------------------------------------------------------------------------
(* Every list is the ring of its elements in both directions, a chain is    *)
(* linked from its first to its last element, and what is on no list has no  *)
(* links, so onList answers correctly (IntrusiveContainers.h).               *)
Linked(s) == \A i \in 1..(Len(s) - 1) : link[s[i]].next = s[i + 1] /\ link[s[i + 1]].prev = s[i]

RingsSound ==
  /\ \A a \in ListAnchor : Linked(Ring(a))
  /\ chain # <<>> => Linked(chain) /\ link[Head(chain)].prev = Null /\ link[Last(chain)].next = Null
  /\ \A x \in Elem : (\A a \in ListAnchor : x \notin ToSet(content[a])) /\ ~InChain(x)
                       => link[x] = [prev |-> Null, next |-> Null]

=============================================================================

------------------------------ MODULE DomTree ------------------------------
(***************************************************************************)
(* What the node functions of swxml promise, as the comments above them    *)
(* (node.c, element.c) put it: a forest of nodes in which every node has   *)
(* an ordered list of children and an ordered list of attributes.  No      *)
(* pointers: a list is a sequence, and moving a node is one step.          *)
(***************************************************************************)
EXTENDS Integers, Sequences, FiniteSets, SequencesExt

CONSTANT MaxNodes   \* size of the node pool

VARIABLES
    kind,        \* what each node is; "none" when it is not allocated
    children,    \* the children of each node, in order
    attrs        \* the attributes of each node, in order

domVars == <<kind, children, attrs>>

Nodes == 1..MaxNodes
Kinds == {"element", "text", "cdata", "document", "attr"}
Unused == {n \in Nodes : kind[n] = "none"}

(* The nodes below n, n included, and their attributes. *)
Subtree(n) ==
    LET grow[s \in SUBSET Nodes] ==
            LET new == UNION {ToSet(children[m]) \cup ToSet(attrs[m]) : m \in s} \ s
            IN IF new = {} THEN s ELSE grow[s \cup new]
    IN grow[{n}]

(* The lists without c: "If the newChild is already in the tree, it is first removed". *)
Without(lists, c) == [n \in Nodes |-> Remove(lists[n], c)]

(* A position for c in p's list: before one of its members, or at the end. *)
Place(p, c, at) ==
    LET rest == Without(children, c)
    IN /\ c \notin Unused /\ p \notin Unused
       /\ p \notin Subtree(c)
       /\ at \in 1..(Len(rest[p]) + 1)
       /\ children' = [rest EXCEPT ![p] = InsertAt(@, at, c)]
       /\ UNCHANGED <<kind, attrs>>

Exchange(p, c, old) ==
    LET rest == Without(children, c)
        at == CHOOSE i \in DOMAIN rest[p] : rest[p][i] = old
    IN /\ c \notin Unused /\ c # old
       /\ p \notin Subtree(c)
       /\ old \in ToSet(children[p])
       /\ children' = [rest EXCEPT ![p] = ReplaceAt(@, at, c)]
       /\ UNCHANGED <<kind, attrs>>

Detach(p, c) ==
    /\ c \in ToSet(children[p])
    /\ children' = [children EXCEPT ![p] = Remove(@, c)]
    /\ UNCHANGED <<kind, attrs>>

(* New nodes: one alone, an element with its text, a new last child, a new last attribute. *)
Create(n, k) ==
    /\ n \in Unused
    /\ kind' = [kind EXCEPT ![n] = k]
    /\ UNCHANGED <<children, attrs>>

CreateWithText(n, t) ==
    /\ {n, t} \subseteq Unused /\ n # t
    /\ kind' = [kind EXCEPT ![n] = "element", ![t] = "text"]
    /\ children' = [children EXCEPT ![n] = <<t>>]
    /\ UNCHANGED attrs

CreateUnder(p, n, k) ==
    /\ n \in Unused /\ p \notin Unused
    /\ kind' = [kind EXCEPT ![n] = k]
    /\ children' = [children EXCEPT ![p] = Append(@, n)]
    /\ UNCHANGED attrs

CreateOn(e, a) ==
    /\ a \in Unused
    /\ kind' = [kind EXCEPT ![a] = "attr"]
    /\ attrs' = [attrs EXCEPT ![e] = Append(@, a)]
    /\ UNCHANGED children

(* Attribute a goes on element e, at the end or in the place of old. *)
PutAttribute(e, a) ==
    /\ kind[a] = "attr" /\ \A m \in Nodes : a \notin ToSet(attrs[m])
    /\ \/ attrs' = [attrs EXCEPT ![e] = Append(@, a)]
       \/ \E i \in DOMAIN attrs[e] : attrs' = [attrs EXCEPT ![e] = ReplaceAt(@, i, a)]
    /\ UNCHANGED <<kind, children>>

DropAttribute(e, a) ==
    /\ a \in ToSet(attrs[e])
    /\ attrs' = [attrs EXCEPT ![e] = Remove(@, a)]
    /\ UNCHANGED <<kind, children>>

(* A copy of the node with its attributes and, when deep, of all that is below it. *)
Copy(n, deep) ==
    LET from == IF deep THEN Subtree(n) ELSE {n} \cup ToSet(attrs[n])
        to == {m \in Unused : kind'[m] # "none"}
        image(c, s) == [i \in DOMAIN s |-> c[s[i]]]
    IN /\ n \notin Unused /\ to # {}
       /\ Cardinality(to) = Cardinality(from)
       /\ \E c \in Bijection(from, to) :
            /\ kind' = [m \in Nodes |-> IF m \in to THEN kind[Inverse(c, from, to)[m]] ELSE kind[m]]
            /\ children' = [m \in Nodes |->
                 CASE m \notin to -> children[m]
                   [] m \in to /\ deep -> image(c, children[Inverse(c, from, to)[m]])
                   [] m \in to /\ ~deep -> <<>>]
            /\ attrs' = [m \in Nodes |->
                 IF m \in to THEN image(c, attrs[Inverse(c, from, to)[m]]) ELSE attrs[m]]

Free(n) ==
    /\ n \notin Unused /\ kind'[n] = "none"
    /\ \A m \in Nodes : n \notin ToSet(children[m]) \cup ToSet(attrs[m])
    /\ \E gone \in {Subtree(n)} :
         /\ kind' = [m \in Nodes |-> IF m \in gone THEN "none" ELSE kind[m]]
         /\ children' = [m \in Nodes |-> IF m \in gone THEN <<>> ELSE children[m]]
         /\ attrs' = [m \in Nodes |-> IF m \in gone THEN <<>> ELSE attrs[m]]

DomInit ==
    /\ kind = [n \in Nodes |-> "none"]
    /\ children = [n \in Nodes |-> <<>>]
    /\ attrs = [n \in Nodes |-> <<>>]

(* A call that is refused, or only writes names and values. *)
Refuse == UNCHANGED domVars

DomNext ==
    \/ Refuse
    \/ /\ UNCHANGED <<kind, attrs>>
       /\ \E p, c \in Nodes : \/ \E at \in Nodes : Place(p, c, at)
                             \/ \E old \in Nodes : Exchange(p, c, old)
                             \/ Detach(p, c)
    \/ /\ UNCHANGED <<kind, children>>
       /\ \E e, a \in Nodes : PutAttribute(e, a) \/ DropAttribute(e, a)
    \/ \E n \in Unused, k \in Kinds :
         /\ kind'[n] = k
         /\ \/ Create(n, k) \/ \E p \in Nodes : CreateUnder(p, n, k)
            \/ \E m \in Nodes : CreateWithText(n, m) \/ CreateOn(m, n)
    \/ \E n \in Nodes, deep \in BOOLEAN : Copy(n, deep)
    \/ \E n \in Nodes : Free(n)

DomSpec == DomInit /\ [][DomNext]_domVars
=============================================================================

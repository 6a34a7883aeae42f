------------------------------- MODULE MCXml -------------------------------
(* The XML tree and parser, checked against the forest of ordered lists it stands for. *)
EXTENDS XmlParser

VARIABLE view    \* the forest the heap stands for, computed once in each state

View(h) == [kind |-> [n \in Node |-> h[n].nodeType],
            children |-> [n \in Node |-> Children(h, n)],
            attrs |-> [n \in Node |-> Attributes(h, n)]]

MCInit == Init /\ view = View(heap)
MCNext == Next /\ IF heap' = heap THEN view' = view ELSE view' = View(heap')
MCSpec == MCInit /\ [][MCNext]_<<vars, view>>

MCTags == {[name |-> "a", prefix |-> NoText], [name |-> "p:b", prefix |-> "p"]}
MCAttrs == {[name |-> "x", declares |-> NotNs, value |-> "1"],
            [name |-> "xmlns", declares |-> Default, value |-> "u"],
            [name |-> "xmlns:p", declares |-> "p", value |-> "v"]}
MCWorkloads == {[tokens |-> 7, calls |-> 0], [tokens |-> 4, calls |-> 1],
                [tokens |-> 0, calls |-> 5]}

(* The linked nodes implement the forest of ordered lists the comments above the functions     *)
(* describe: each call, each step of the parser and each clone is one step of that forest      *)
(* (node.c:515-742, 1146-1179; element.c:243-416; parser.c:854-972).                           *)
Dom == INSTANCE DomTree WITH
    kind <- view.kind, children <- view.children, attrs <- view.attrs
ImplementsDom == Dom!DomSpec
=============================================================================

------------------------------- MODULE MCIngest -------------------------------
(* One account with a single connection, which all sources share.            *)
EXTENDS CsoIngest

CONSTANT account

MCKeyOf == [s \in Sources |-> account]
MCLimit == [k \in Keys |-> 1]
=============================================================================

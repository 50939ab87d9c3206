-------------------------------- MODULE MCVod ---------------------------------
(* A title two accounts offer, in files of two chunks and of one; the first     *)
(* account has two connections and another user, the second one connection.    *)
(* Two clients come, both of the first account or the second of the other.     *)
EXTENDS VodCache, TLC

CONSTANTS other, a, b, file, s1, s2, s3

MCOwners == (Sessions \X {"direct", "cache"}) \union {other}
MCOthers == {<<a, other>>}
MCLimit == (a :> 2) @@ (b :> 1) @@ (file :> 5)
MCSize == (a :> 2) @@ (b :> 1)
MCAccountOf == (s1 :> a) @@ (s2 :> a) @@ (s3 :> b)
MCCompany == SUBSET {s1, s2} \union {{s1, s3}}

\* A client that comes while its title is evicted: looked at, not beyond.
NotBeyondRaced == "eviction" \notin raced
=============================================================================

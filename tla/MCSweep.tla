------------------------------- MODULE MCSweep -------------------------------
(***************************************************************************)
(* A finite instance of Sweep.  Two plain keys whose names meet in         *)
(* "db_user": DB-User alone, and db with its field user or User; a hidden  *)
(* key that points at the leasing engine.                                  *)
(***************************************************************************)
EXTENDS Sweep, FiniteSets, TLC

\* 1 ".aws", 2 "DB-User", 3 "db"
MCKeys  == 1..3
MCPlain == {2, 3}
MCKeyName == (1 :> <<".aws">>) @@ (2 :> <<"db", "user">>) @@ (3 :> <<"db">>)

\* 1 "$ref", 2 "User", 3 "user", 4 "value"
MCFields == 1..4
MCFieldName == (1 :> <<"$ref">>) @@ (2 :> <<"user">>) @@ (3 :> <<"user">>)
               @@ (4 :> <<"value">>)
MCBadParts == {".aws", "$ref"}

MCStrings == {"s1", "s2", "aws/creds", "view", "gone"}

MCReply ==
    ("aws/creds" :> [data |-> (2 :> "s1") @@ (4 :> "s2"), kv2 |-> FALSE, lease |-> TRUE])
    @@ ("view" :> [data |-> (1 :> "aws/creds") @@ (3 :> "s1") @@ (4 :> "s2"),
                   kv2 |-> TRUE, lease |-> FALSE])

Entry(d, p) == [data |-> d, pin |-> p]

MCRewrites ==
    {Entry(4 :> "s1", "pinned"),
     Entry((2 :> "s1") @@ (3 :> "s2") @@ (4 :> "s1"), ""),
     Entry(1 :> "aws/creds", "pinned"),
     Entry(1 :> "view", "")}

\* Pointers to nowhere and of no string, a pointer with siblings, one of them no
\* string.
OddEntries ==
    {Entry(1 :> Other, ""), Entry(1 :> "gone", "pinned"),
     Entry((1 :> "view") @@ (3 :> "s1") @@ (4 :> Other), "")}

Nulls == {Entry(4 :> Null, "")}

MCEntries == MCRewrites \cup OddEntries \cup Nulls

Hidden == <<"base", 1>> :> Entry(1 :> "aws/creds", "pinned")

PlainPlaces == TierNames \X MCPlain

\* Every store with one or two entries somebody may write.
CommonStores ==
    {Hidden @@ s : s \in UNION {[P -> MCRewrites] :
        P \in {Q \in SUBSET PlainPlaces : Cardinality(Q) \in 1..2}}}

\* An odd entry in the most specific tier, over a base of the usual kind.
OddStores(odd) ==
    {Hidden @@ (<<"branch", k>> :> e) @@ (<<"base", 2>> :> b) :
        k \in MCPlain, e \in odd, b \in MCRewrites}

MCStores == CommonStores \cup OddStores(OddEntries \cup Nulls)

Everything == {<<t>> : t \in TierNames} \cup Places \cup {<<p>> : p \in MCStrings}

\* Everything; neither the LIST of the branch tier nor one entry of the next;
\* all but the leasing engine.
MCGrants == {Everything, Everything \ {<<"branch">>, <<"event", 3>>},
             Everything \ {<<"aws/creds">>}}
=============================================================================

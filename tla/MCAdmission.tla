----------------------------- MODULE MCAdmission -----------------------------
(***************************************************************************)
(* A finite instance of Admission: half-second ticks; payloads whose names *)
(* differ in case only and branches whose escapes could meet; a signer     *)
(* whose clock is right, behind, or far ahead.                             *)
(***************************************************************************)
EXTENDS Admission, TLC

MCLower == [n \in {"acme", "widget", "push", "tag"} |-> n]
           @@ ("Acme" :> "acme") @@ ("Push" :> "push")

Payload(shape, full, event, branch) ==
    [shape |-> shape, full |-> full, event |-> event, branch |-> branch]

\* none, "M", "m", "%4d", "%", "%25", ".", "%2e", "a.", "/", "a/b", "~"
Branches == {<<>>, <<77>>, <<109>>, <<37, 52, 100>>, <<37>>, <<37, 50, 53>>, <<46>>,
             <<37, 50, 101>>, <<97, 46>>, <<47>>, <<97, 47, 98>>, <<126>>}

Usual == Payload("ok", <<"acme", "widget">>, "push", <<109>>)

GoodPayloads ==
    {Payload("ok", <<"acme", "widget">>, "push", b) : b \in Branches}
    \cup {Payload("ok", <<"Acme", "widget">>, "Push", <<77>>),
          Payload("ok", <<"widget", "acme">>, "push", <<109>>),
          Payload("ok", <<"acme", "widget">>, "tag", <<109>>)}

BadPayloads ==
    {Payload("not_json", <<>>, "", <<>>), Payload("no_pipeline", <<"acme", "widget">>, "", <<>>),
     Payload("ok", <<"acme", "">>, "push", <<>>), Payload("ok", <<"acme">>, "push", <<>>),
     Payload("ok", <<"acme", "widget">>, "", <<109>>)}

MCPayloads == GoodPayloads \cup BadPayloads

MCSwaps == {Usual, Payload("ok", <<"acme", "widget">>, "tag", <<109>>),
            Payload("ok", <<"acme", "widget">>, "", <<109>>)}

Signing(p, k, c, d, a) ==
    [payload |-> p, key |-> k, covers |-> c, dated |-> d, ahead |-> a]

\* Every payload signed as it should be; one payload signed in every way, and
\* by a signer whose clock is behind or far ahead.
MCSignings ==
    {Signing(p, "k1", TRUE, TRUE, 0) : p \in MCPayloads}
    \cup {Signing(Usual, k, c, d, 0) : k \in {"k1", "k2"}, c \in BOOLEAN, d \in BOOLEAN}
    \cup {Signing(Usual, "k1", TRUE, TRUE, a) : a \in {-1, 4}}

Var(v, f) == [val |-> v, file |-> f]

Env(k, addr, r, s, w) ==
    [pubkey |-> k, addr |-> addr, role |-> r, secret |-> s, window |-> w]

Given(n) == [kind |-> "given", ticks |-> n]
UnsetWindow == [kind |-> "unset", ticks |-> 0]

Complete(k, w) == Env(k, "vault", Var("role", ""), Var("", "secret"), w)

Serving ==
    {Complete(Var("k1", ""), UnsetWindow), Complete(Var("", "k2"), Given(3)),
     Complete(Var("k1", ""), Given(0)), Complete(Var("", "k1"), Given(-2))}

Failing ==
    {Complete(k, UnsetWindow) :
        k \in {Var("", ""), Var(" ", ""), Var("", " "), Var("", "unreadable"),
               Var("k1", "k2"), Var("k1", "k1"), Var("junk", "")}}
    \cup {Env(Var("k1", ""), a, r, Var("secret", "older"), UnsetWindow) :
            a \in {"", "vault"}, r \in {Var("", ""), Var("role", "")}}
    \cup {Env(Var("k1", ""), "", Var("role", ""), Var("secret", ""), UnsetWindow)}
    \cup {Env(Var("k1", ""), "vault", Var("", f), Var("secret", ""), UnsetWindow) :
            f \in {" ", "unreadable"}}
    \cup {Env(Var("k1", ""), "vault", Var("role", ""), Var("", f), UnsetWindow) :
            f \in {" ", "unreadable"}}
    \cup {Complete(Var("k1", ""), [kind |-> "junk", ticks |-> 0])}

MCEnvironments == Serving \cup Failing
=============================================================================

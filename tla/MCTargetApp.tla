---------------------------- MODULE MCTargetApp -----------------------------
(***************************************************************************)
(* Two connections, two tenants, one of them with the extra page; a member *)
(* with two accounts and one nobody may see.                               *)
(***************************************************************************)
EXTENDS TargetApp, TLC

Blank == [member |-> None, source |-> 0, amount |-> 0, token |-> 0]

Ask(t, action, method, form) ==
    [tenant |-> t, action |-> action, method |-> method, form |-> form]

Filled(m, source, amount) ==
    [member |-> m, source |-> source, amount |-> amount, token |-> 0]

TwoAccounts == [m \in Members |-> <<1, 2>>]

Pages ==
    {Ask(t, action, "POST", Blank) : t \in Tenants, action \in {"login", "confirm", "dismiss"}}
    \cup {Ask(t, "commit", "POST", Blank) : t \in Extra}
    \cup {Ask(t, "review", "POST", Filled(m, 1, 1)) :
             t \in Tenants, m \in Members \ Restricted}
    \cup {Ask(Home, "detail", "GET", Filled(m, 0, 0)) : m \in Members}
    \cup {Ask(Home, "review", "GET", Filled(m, 0, 0)) : m \in Members \ Restricted}
    \cup {Ask(Home, "search", "GET", Blank),
          Ask(Home, "login", "GET", Blank), Ask(None, "frame", "GET", Blank),
          Ask(Home, "frame", "GET", Blank)}

NoFaults == [k \in Kinds |-> 0]
Plans == {NoFaults} \cup {[NoFaults EXCEPT ![k] = 1] : k \in Kinds}

\* An answer on its way out does nothing but show a token, so the others are one.
Sight ==
    [c \in Clients |->
        IF At(c, "answered") /\ served[c].answer.screen \notin {"review", "extra"}
        THEN [stage |-> "answered"] ELSE served[c]]
Essence == <<session, known, Sight>>

Symmetry == Permutations(Clients)
=============================================================================

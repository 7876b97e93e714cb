---------------------------- MODULE DockerParams ----------------------------
(***************************************************************************)
(* How the offers callback turns a task's parameters into Docker           *)
(* parameters (src/scheduler/scheduler_impl.rs, lines 171-206).  A string  *)
(* is a sequence of one-character strings.  The result is a record: panic  *)
(* is TRUE when the pairing loop indexes past the end of its tokens, which *)
(* panics the scheduler thread; pairs is the list of <<key, value>>.       *)
(***************************************************************************)
EXTENDS Naturals, Sequences

\* The characters the parameter string is split on.
Separators == {"-", "=", " "}

\* The network modes Docker knows; any other network_type becomes a parameter.
KnownNetworks == {<<"h", "o", "s", "t">>, <<"b", "r", "i", "d", "g", "e">>, <<"n", "o", "n", "e">>}

\* The match on network_type: a custom one is appended as " --net=<type>".
NetParameters(p, net) ==
    IF net \in KnownNetworks THEN p
    ELSE p \o <<" ", "-", "-", "n", "e", "t", "=">> \o net

\* split(|c| c == '-' || c == '=' || c == ' ').filter(|s| !s.is_empty()),
\* scanning s with cur, the token read so far.
RECURSIVE TokensFrom(_, _)
TokensFrom(s, cur) ==
    LET flush == IF cur = << >> THEN << >> ELSE <<cur>>
    IN IF s = << >> THEN flush
       ELSE IF Head(s) \in Separators THEN flush \o TokensFrom(Tail(s), << >>)
       ELSE TokensFrom(Tail(s), Append(cur, Head(s)))

Tokens(s) == TokensFrom(s, << >>)

Panic == [panic |-> TRUE, pairs |-> << >>]
Done(ps) == [panic |-> FALSE, pairs |-> ps]

RECURSIVE PairFrom(_, _)

\* Fault variant of PairFrom: the break test is count > elmts.len().
PairFromLate(e, count) ==
    IF count + 2 > Len(e) THEN Panic
    ELSE LET rest == IF count + 2 > Len(e) THEN Done(<< >>) ELSE PairFrom(e, count + 2)
         IN IF rest.panic THEN Panic
            ELSE Done(<<<<e[count + 1], e[count + 2]>>>> \o rest.pairs)

\* The loop from count (0-based): elmts[count] is the key, elmts[count + 1]
\* the value, each an index that panics past the end; the loop breaks once
\* count >= elmts.len().
PairFrom(e, count) ==
    IF count + 2 > Len(e) THEN Panic
    ELSE LET rest == IF count + 2 >= Len(e) THEN Done(<< >>) ELSE PairFrom(e, count + 2)
         IN IF rest.panic THEN Panic
            ELSE Done(<<<<e[count + 1], e[count + 2]>>>> \o rest.pairs)

\* The whole conversion; the loop runs only for a non-empty string.
DockerParameters(p, net) ==
    LET q == NetParameters(p, net)
    IN IF q = << >> THEN Done(<< >>) ELSE PairFrom(Tokens(q), 0)

=============================================================================

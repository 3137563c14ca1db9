--------------------------- MODULE PatternMatcher ---------------------------
(***************************************************************************)
(* internal/rule/pattern.go and path_matcher.go: matching of NATS subjects *)
(* and HTTP paths against patterns.  A subject is its sequence of tokens.  *)
(* A path is its sequence of segments, and whether a slash follows them.   *)
(***************************************************************************)
EXTENDS Integers, Sequences

Single == "*"
Greedy == ">"

\* tokensContainWildcards
Wild(pattern) == \E i \in DOMAIN pattern : pattern[i] \in {Single, Greedy}

\* ValidatePattern and, on segments, ValidatePathPattern.
ValidTokens(pattern) ==
  \A i \in DOMAIN pattern :
    /\ pattern[i] # ""
    /\ pattern[i] = Greedy => i = Len(pattern)

\* matchRecursive.  Its two indexes advance together, so they are one.
matchFrom(pattern, tokens) ==
  LET match[i \in 1..(Len(pattern) + 1)] ==
        IF i > Len(pattern) THEN i > Len(tokens)
        ELSE IF i > Len(tokens) THEN i = Len(pattern) /\ pattern[i] = Greedy
        ELSE \/ pattern[i] = Greedy
             \/ pattern[i] = Single /\ tokens[i] # "" /\ match[i + 1]
             \/ pattern[i] = tokens[i] /\ match[i + 1]
  IN match[1]

\* Mutant: minTokens counts the terminal wildcard, and the tokens before it
\* must leave it two.
LengthFitsMore(pattern, tokens) ==
  IF \E i \in DOMAIN pattern : pattern[i] = Greedy
  THEN Len(tokens) > Len(pattern)
  ELSE Len(tokens) = Len(pattern)

\* compile's hasTerminalWildcard and minTokens, and the length check.
LengthFits(pattern, tokens) ==
  IF \E i \in DOMAIN pattern : pattern[i] = Greedy
  THEN Len(tokens) >= Len(pattern) - 1
  ELSE Len(tokens) = Len(pattern)

\* PatternMatcher.MatchTokens
MatchTokens(pattern, tokens) ==
  IF ~Wild(pattern) THEN pattern = tokens
  ELSE IF tokens = <<>> THEN pattern = <<Greedy>>
  ELSE LengthFits(pattern, tokens) /\ matchFrom(pattern, tokens)

\* A rule with a wildcard path is matched by segments, any other by the path
\* as it was written.
MatchPath(pattern, path) ==
  IF Wild(pattern.segments)
  THEN MatchTokens(pattern.segments, path.segments)
  ELSE pattern = path

-----------------------------------------------------------------------------
\* A subject the server accepts (external).
NoEmptyToken(subject) == \A i \in DOMAIN subject : subject[i] # ""

\* What the server delivers to a subscription: "*" stands for one token and
\* ">" for one or more.
ServerDelivers(filter, subject) ==
  LET n == Len(filter) IN
  /\ n > 0
  /\ IF filter[n] = Greedy THEN Len(subject) >= n ELSE Len(subject) = n
  /\ \A i \in 1..n : filter[i] \in {Single, Greedy} \/ filter[i] = subject[i]
=============================================================================

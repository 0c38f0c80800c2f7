------------------------------ MODULE PathPolicy ------------------------------
(***************************************************************************)
(* Which paths of a repository a task may read and write                   *)
(* (src/security/path-policy.ts) and the glob matcher that decides it      *)
(* (src/lib/glob.ts).                                                      *)
(*                                                                         *)
(* A path or a pattern is a sequence of symbols: "/", the wildcards "*" and*)
(* "?", and pieces of names, each of which stands for its letters.  Paths  *)
(* are normalized; <<>> is one that does not stay inside the repository.   *)
(***************************************************************************)
EXTENDS Integers, Sequences, FiniteSets

(* A state of the matcher: how much of the value and of the pattern has    *)
(* been read, and whether a directory wildcard is taking in directories.   *)
GlobState(valueIndex, patternIndex, globstarSlashActive) ==
    [value |-> valueIndex, pattern |-> patternIndex, active |-> globstarSlashActive]

Symbol(s, index) == IF index < Len(s) THEN s[index + 1] ELSE "end"

(* What the matcher pushes for a state it pops.                            *)
Successors(value, pattern, state) ==
    LET v == state.value
        p == state.pattern
        Directory == Symbol(value, v) = "/"
        More      == v < Len(value)
        Star(i)   == Symbol(pattern, p + i) = "*"
        When(condition, next) == IF condition THEN {next} ELSE {}
    IN IF state.active
       THEN When(More, GlobState(v + 1, p, TRUE))
            \cup When(Directory, GlobState(v + 1, p + 3, FALSE))
       ELSE IF p >= Len(pattern) THEN {}
       ELSE IF Star(0) /\ Star(1) /\ Symbol(pattern, p + 2) = "/"
       THEN {GlobState(v, p + 3, FALSE)} \cup When(More, GlobState(v, p, TRUE))
       ELSE IF Star(0) /\ Star(1)
       THEN {GlobState(v, p + 2, FALSE)} \cup When(More, GlobState(v + 1, p, FALSE))
       ELSE IF Star(0)
       THEN {GlobState(v, p + 1, FALSE)}
            \cup When(More /\ ~Directory, GlobState(v + 1, p, FALSE))
       ELSE When(/\ More
                 /\ \/ Symbol(pattern, p) = "?" /\ ~Directory
                    \/ Symbol(pattern, p) = Symbol(value, v),
                 GlobState(v + 1, p + 1, FALSE))

(* Every state the search visits; a step reads on or takes up a wildcard.  *)
Visited(value, pattern) ==
    LET visited[n \in Nat] ==
            IF n = 0 THEN {GlobState(0, 0, FALSE)}
            ELSE LET before == visited[n - 1]
                 IN before \cup UNION {Successors(value, pattern, s) : s \in before}
    IN visited[2 * (Len(value) + Len(pattern))]

(* Mutant: the search stops at the end of the pattern.                     *)
matchGlobPrefix(value, pattern) ==
    \E s \in Visited(value, pattern) : ~s.active /\ s.pattern >= Len(pattern)

(* The work limit of 200000 states is left out.                            *)
matchGlob(value, pattern) ==
    \E s \in Visited(value, pattern) :
        ~s.active /\ s.pattern >= Len(pattern) /\ s.value = Len(value)

matchesAnyGlob(value, patterns) == \E p \in patterns : matchGlob(value, p)

-----------------------------------------------------------------------------
(* One pattern of every kind in the two lists of defaults.                 *)

defaultProhibitedPaths ==
    {<<".git">>, <<".git", "/", "*", "*">>, <<"*", "*", "/", ".git", "/", "*", "*">>,
     <<"*", "*", "/", ".env">>, <<"*", "*", "/", "*", ".pem">>,
     <<".agent-os", "/", "*", "*">>}
defaultWriteProhibitedPaths ==
    {<<".github", "/", "*", "*">>, <<"package.json">>, <<"*", "*", "/", "package.json">>}

InsideRepository(path) == path # <<>>

(* A policy has the patterns a task allows and prohibits.                  *)
assertAllowed(policy, path) ==
    /\ InsideRepository(path)
    /\ matchesAnyGlob(path, policy.allowed)
    /\ ~matchesAnyGlob(path, defaultProhibitedPaths \cup policy.prohibited)

assertWritable(policy, path) ==
    /\ assertAllowed(policy, path)
    /\ ~matchesAnyGlob(path, defaultWriteProhibitedPaths)

(* What is at a path: nothing, a file with one link or more, a link, a     *)
(* directory or another kind of file.                                      *)
FileKinds == {"missing", "file", "hardlink", "symlink", "directory"}

(* What the harness takes into a patch.                                    *)
assertSafeChangedPath(policy, path, kind) ==
    assertWritable(policy, path) /\ kind \in {"missing", "file"}

(* Where the write tool may write; real is where the path really leads.    *)
resolveForWrite(policy, path, kind, real) ==
    /\ assertWritable(policy, path)
    /\ kind \notin {"symlink", "hardlink"}
    /\ InsideRepository(real)

-----------------------------------------------------------------------------
(* What a pattern means, symbol by symbol: a directory wildcard stands for *)
(* nothing or anything that ends in a slash, ** for anything, * for        *)
(* anything without a slash and ? for one symbol that is not one.          *)
Denotes(value, pattern) ==
    LET IsDirectories(j) == j + 2 <= Len(pattern) /\ SubSeq(pattern, j, j + 2) = <<"*", "*", "/">>
        IsAnything(j)    == j < Len(pattern) /\ SubSeq(pattern, j, j + 1) = <<"*", "*">>
        Plain(i, k)      == \A x \in i..(k - 1) : value[x] # "/"
        means[at \in (1..(Len(value) + 1)) \X (1..(Len(pattern) + 1))] ==
            LET i == at[1]
                j == at[2]
            IN  IF j > Len(pattern) THEN i > Len(value)
                ELSE IF IsDirectories(j)
                THEN \/ means[<<i, j + 3>>]
                     \/ \E k \in i..Len(value) : value[k] = "/" /\ means[<<k + 1, j + 3>>]
                ELSE IF IsAnything(j)
                THEN \E k \in i..(Len(value) + 1) : means[<<k, j + 2>>]
                ELSE IF pattern[j] = "*"
                THEN \E k \in i..(Len(value) + 1) : Plain(i, k) /\ means[<<k, j + 1>>]
                ELSE /\ i <= Len(value)
                     /\ value[i] = pattern[j] \/ (pattern[j] = "?" /\ value[i] # "/")
                     /\ means[<<i + 1, j + 1>>]
    IN means[<<1, 1>>]

DenotedBy(value, patterns) == \E p \in patterns : Denotes(value, p)
=============================================================================

---------------------------- MODULE LabelsProofs ----------------------------
(***************************************************************************)
(* The type of Labels, proved for any lists, in whatever way they are      *)
(* written: the scanner stays in its list, however it looks ahead, cuts    *)
(* out tokens of it, and no empty token, entry or label comes of them.     *)
(***************************************************************************)
EXTENDS Labels, SequenceTheorems, WellFoundedInduction, TLAPS

Characters == ToSet(raw)
Token == Seq(Characters) \ {<<>>}

\* Where the scanner is, and what it has of the list.
ScanOK ==
    /\ raw \in Seq(STRING)
    /\ i \in 1 .. Len(raw) + 1
    /\ inQuote \in Quotes \cup {None}
    /\ cur \in Seq(Characters)
    /\ tokens \in Seq(Token)

\* What has been asked for, the entries and the targets.
ParseOK ==
    /\ pc \in {"args", "scan", "tokens", "parts", "accepted", "rejected"}
    /\ style \in AllStyles
    /\ asked \in Seq(Asks) /\ Len(asked) <= MaxTargets
    /\ entries \in Seq(ToSet(entries)) /\ \A e \in ToSet(entries) : Started(e)
    /\ targets \in Seq(ToSet(targets))
    /\ \A target \in ToSet(targets) : target.label # <<>>

Inductive == ScanOK /\ ParseOK

-----------------------------------------------------------------------------
(* Sequences.                                                              *)

LEMMA MembersOf ==
    ASSUME NEW S, NEW s \in Seq(S)
    PROVE  ToSet(s) \subseteq S /\ s \in Seq(ToSet(s))
<1>1. Len(s) \in Nat /\ s \in [1 .. Len(s) -> S] /\ DOMAIN s = 1 .. Len(s)
    BY LenProperties
<1>2. ToSet(s) \subseteq S
    BY <1>1 DEF ToSet
<1>3. \A k \in 1 .. Len(s) : s[k] \in ToSet(s)
    BY <1>1 DEF ToSet
<1>4. s \in Seq(ToSet(s))
    BY <1>1, <1>3
<1> QED
    BY <1>2, <1>4

\* One more member, and the members of two sequences.
LEMMA AppendedMember ==
    ASSUME NEW S, NEW s \in Seq(S), NEW e
    PROVE  /\ Append(s, e) \in Seq(ToSet(Append(s, e)))
           /\ ToSet(Append(s, e)) \subseteq ToSet(s) \cup {e}
<1>1. s \in Seq(ToSet(s) \cup {e})
    BY MembersOf, SeqMonotonic
<1>2. Append(s, e) \in Seq(ToSet(s) \cup {e})
    BY <1>1, AppendProperties
<1> QED
    BY <1>2, MembersOf

LEMMA JoinedMembers ==
    ASSUME NEW S, NEW s \in Seq(S), NEW T, NEW t \in Seq(T)
    PROVE  /\ s \o t \in Seq(ToSet(s \o t))
           /\ ToSet(s \o t) \subseteq ToSet(s) \cup ToSet(t)
<1>1. s \in Seq(ToSet(s) \cup ToSet(t)) /\ t \in Seq(ToSet(s) \cup ToSet(t))
    BY MembersOf, SeqMonotonic
<1>2. s \o t \in Seq(ToSet(s) \cup ToSet(t))
    BY <1>1, ConcatProperties
<1> QED
    BY <1>2, MembersOf

-----------------------------------------------------------------------------
(* splitTokensQuoteAware.                                                  *)

\* From anywhere in the list, or just behind it, the next character that is no
\* space is not before, and at most just behind it.
LEMMA SolidAhead ==
    ASSUME raw \in Seq(STRING), NEW k \in 1 .. Len(raw) + 1
    PROVE  NextSolid(k) \in k .. Len(raw) + 1
<1> DEFINE Stops == {n \in k .. Len(raw) + 1 : n = Len(raw) + 1 \/ raw[n] # Space}
           Less == OpToRel(<, Nat)
<1>1. Len(raw) \in Nat
    BY LenProperties
<1>2. Stops \subseteq Nat /\ Len(raw) + 1 \in Stops
    BY <1>1
<1>3. \E n \in Stops : \A m \in Stops : ~(<<m, n>> \in Less)
    <2> HIDE DEF Stops
    <2> QED
        BY <1>2, NatLessThanWellFounded, WFMin
<1>4. PICK n \in Stops : \A m \in Stops : ~(<<m, n>> \in Less)
    BY <1>3
<1>5. ASSUME NEW m \in k .. n - 1
      PROVE  raw[m] = Space
    <2>1. m \in Nat /\ n \in Nat /\ m < n /\ m \in k .. Len(raw) + 1
        BY <1>1, <1>2
    <2>2. <<m, n>> \in Less
        BY <2>1 DEF OpToRel
    <2>3. m \notin Stops
        BY <1>4, <2>2
    <2> QED
        BY <2>1, <2>3
<1> QED
    BY <1>4, <1>5 DEF NextSolid

\* A character of the list is added to the token.
LEMMA CharacterAppended ==
    ASSUME ScanOK, Scanning
    PROVE  /\ raw[i] \in Characters /\ i + 1 \in 1 .. Len(raw) + 1
           /\ Append(cur, raw[i]) \in Token
<1>1. Len(raw) \in Nat /\ DOMAIN raw = 1 .. Len(raw) /\ i \in 1 .. Len(raw)
    BY LenProperties DEF ScanOK, Scanning
<1>2. raw[i] \in Characters
    BY <1>1 DEF Characters, ToSet
<1>3. Append(cur, raw[i]) \in Seq(Characters) /\ Append(cur, raw[i]) # <<>>
    BY <1>2, AppendProperties DEF ScanOK
<1> QED
    BY <1>1, <1>2, <1>3 DEF Token

LEMMA FinishedTokens ==
    ASSUME ScanOK
    PROVE  Finished \in Seq(Token)
<1>1. cur # <<>> => cur \in Token
    BY DEF ScanOK, Token
<1> QED
    BY <1>1, AppendProperties DEF ScanOK, Finished

LEMMA CloseQuoteScan ==
    ASSUME ScanOK, CloseQuote
    PROVE  ScanOK'
<1> DEFINE str == Append(cur, raw[i])
           behind == NextSolid(i + 1)
           hasSemi == Head(str) = raw[i] /\ Is(behind, {";"})
           k == IF hasSemi THEN NextSolid(behind + 1) ELSE behind
           hasComma == /\ Head(str) = raw[i] /\ Is(k, {","})
                       /\ Is(NextSolid(k + 1), Quotes)
<1>1. Scanning /\ raw' = raw /\ inQuote' = None
    BY DEF CloseQuote
<1>2. /\ tokens' = tokens \o (IF hasSemi THEN <<str>> ELSE <<>>)
                         \o (IF hasComma THEN <<str>> ELSE <<>>)
      /\ cur' = IF hasSemi \/ hasComma THEN <<>> ELSE str
      /\ i' = CASE hasComma -> NextSolid(k + 1)
                [] hasSemi /\ ~hasComma -> k
                [] OTHER -> i + 1
    BY DEF CloseQuote
<1>3. str \in Token /\ i + 1 \in 1 .. Len(raw) + 1 /\ Len(raw) \in Nat /\ raw \in Seq(STRING)
    BY <1>1, CharacterAppended, LenProperties DEF ScanOK
<1>4. behind \in 1 .. Len(raw) + 1
    BY <1>3, SolidAhead
<1>5. k \in 1 .. Len(raw) + 1
    <2>1. CASE hasSemi
        <3>1. behind <= Len(raw)
            BY <2>1, Zenon DEF Is
        <3> HIDE DEF behind, hasSemi
        <3>2. behind + 1 \in 1 .. Len(raw) + 1
            BY <1>3, <1>4, <3>1
        <3>3. NextSolid(behind + 1) \in behind + 1 .. Len(raw) + 1
            BY <1>3, <3>2, SolidAhead
        <3> QED
            BY <1>3, <1>4, <2>1, <3>3
    <2>2. CASE ~hasSemi
        BY <1>4, <2>2
    <2> QED
        BY <2>1, <2>2
<1> HIDE DEF str, behind, hasSemi, k
<1>6. hasComma => NextSolid(k + 1) \in 1 .. Len(raw) + 1
    <2>1. hasComma => k <= Len(raw)
        BY Zenon DEF Is
    <2> HIDE DEF hasComma
    <2>2. hasComma => k + 1 \in 1 .. Len(raw) + 1
        BY <1>3, <1>5, <2>1
    <2>3. hasComma => NextSolid(k + 1) \in k + 1 .. Len(raw) + 1
        BY <1>3, <2>2, SolidAhead
    <2> QED
        BY <1>3, <1>5, <2>3
<1> HIDE DEF hasComma
<1>7. i' \in 1 .. Len(raw) + 1
    BY <1>2, <1>3, <1>5, <1>6
<1>8. tokens' \in Seq(Token)
    <2>1. <<str>> \in Seq(Token) /\ <<>> \in Seq(Token) /\ tokens \in Seq(Token)
        BY <1>3 DEF ScanOK
    <2> QED
        BY <1>2, <2>1, ConcatProperties
<1>9. cur' \in Seq(Characters)
    BY <1>2, <1>3 DEF Token
<1> QED
    BY <1>1, <1>3, <1>7, <1>8, <1>9 DEF ScanOK, Characters, Token

\* Every step of the scanner.
LEMMA ScannerStep ==
    ASSUME ScanOK, OpenQuote \/ Separate \/ SkipSpace \/ Copy \/ CloseQuote \/ EndScan
    PROVE  ScanOK'
<1>1. CASE OpenQuote
    BY <1>1, CharacterAppended DEF OpenQuote, ScanOK, Characters, Token
<1>2. CASE Separate
    <2>1. Finished \in Seq(Token) /\ <<>> \in Seq(Characters) /\ i + 1 \in 1 .. Len(raw) + 1
        BY <1>2, FinishedTokens, CharacterAppended DEF Separate
    <2> QED
        BY <1>2, <2>1 DEF Separate, ScanOK, Characters, Token
<1>3. CASE SkipSpace
    BY <1>3, CharacterAppended DEF SkipSpace, ScanOK, Characters, Token
<1>4. CASE Copy
    BY <1>4, CharacterAppended DEF Copy, ScanOK, Characters, Token
<1>5. CASE CloseQuote
    BY <1>5, CloseQuoteScan
<1>6. CASE EndScan
    BY <1>6, FinishedTokens DEF EndScan, ScanOK, Characters, Token
<1> QED
    BY <1>1, <1>2, <1>3, <1>4, <1>5, <1>6

-----------------------------------------------------------------------------
(* Every step.                                                             *)

LEMMA ScanStep ==
    ASSUME ScanOK, ParseOK, [Next]_vars
    PROVE  ScanOK'
<1>1. ASSUME NEW list \in Lists, Give(list)
      PROVE  ScanOK'
    <2>1. list \in ListsOf(Asks)
        BY DEF Lists, ListsOf
    <2>2. raw' \in Seq(STRING)
        BY <1>1, <2>1, LabelsAssumption DEF Give, LabelsAssumption, ParseOK
    <2>3. Len(raw') \in Nat /\ 1 \in 1 .. Len(raw') + 1
        BY <2>2, LenProperties
    <2>4. <<>> \in Seq(Characters') /\ <<>> \in Seq(Token')
        OBVIOUS
    <2> QED
        BY <1>1, <2>2, <2>3, <2>4 DEF Give, ScanOK
<1>2. CASE OpenQuote \/ Separate \/ SkipSpace \/ Copy \/ CloseQuote \/ EndScan
    BY <1>2, ScannerStep
<1>3. CASE TakeToken
    <2>1. Tail(tokens) \in Seq(Token)
        BY <1>3, HeadTailProperties DEF TakeToken, ScanOK
    <2> QED
        BY <1>3, <2>1 DEF TakeToken, ScanOK, Characters, Token
<1>4. CASE AddWord \/ AddFlag \/ AddValue \/ EndToken \/ Set \/ Validate \/ UNCHANGED vars
    <2>1. UNCHANGED scanner
        BY <1>4 DEF AddWord, AddFlag, AddValue, TakePart, EndToken, Set, Validate, vars
    <2> QED
        BY <2>1 DEF scanner, ScanOK, Characters, Token
<1> QED
    BY <1>1, <1>2, <1>3, <1>4 DEF Next

\* Entries are added that have begun.
LEMMA EntryAppended ==
    ASSUME ParseOK, Started(entry)
    PROVE  /\ Append(entries, entry) \in Seq(ToSet(Append(entries, entry)))
           /\ \A e \in ToSet(Append(entries, entry)) : Started(e)
    BY AppendedMember DEF ParseOK

\* A flag that is not empty is among the flags.
LEMMA NextBegun == ASSUME BeginsNext PROVE Started(entry)
<1>1. Flag(entry.flags, Key) # <<>>
    BY DEF BeginsNext
<1>2. Key \in DOMAIN entry.flags
    BY <1>1 DEF Flag
<1>3. DOMAIN NoFlags = {}
    BY DEF NoFlags
<1> QED
    BY <1>2, <1>3 DEF Started

LEMMA TargetLabelled == ASSUME NEW e PROVE Target(e).label # <<>>
    BY DEF Target

LEMMA ParseStep ==
    ASSUME ParseOK, [Next]_vars
    PROVE  ParseOK'
<1>1. ASSUME NEW list \in Lists, Give(list)
      PROVE  ParseOK'
    <2>1. list \in Seq(Asks)
        BY DEF Lists, ListsOf
    <2>2. asked' \in Seq(Asks) /\ Len(asked') <= MaxTargets
        <3>1. asked' = asked \o list /\ Len(asked) + Len(list) <= MaxTargets
            BY <1>1 DEF Give
        <3> QED
            BY <2>1, <3>1, ConcatProperties DEF ParseOK
    <2>3. entries' = <<>> /\ ToSet(<<>>) = {}
        BY <1>1 DEF Give, ToSet
    <2>4. UNCHANGED <<style, targets>> /\ pc' = "scan"
        BY <1>1 DEF Give
    <2> QED
        BY <2>2, <2>3, <2>4 DEF ParseOK
<1>2. CASE OpenQuote \/ Separate \/ SkipSpace \/ Copy \/ CloseQuote \/ EndScan \/ TakeToken
    <2>1. UNCHANGED <<asking, entries, targets>> /\ pc' \in {pc, "tokens", "parts"}
        BY <1>2 DEF OpenQuote, Separate, SkipSpace, Copy, CloseQuote, EndScan, TakeToken, parser
    <2> QED
        BY <2>1 DEF ParseOK, asking
<1>3. CASE AddWord \/ AddFlag \/ AddValue \/ EndToken
    <2>1. UNCHANGED <<asking, targets>> /\ pc' \in {pc, "tokens"}
        BY <1>3 DEF AddWord, AddFlag, AddValue, TakePart, EndToken
    <2>2. entries' = entries \/ (Started(entry) /\ entries' = Append(entries, entry))
        BY <1>3, NextBegun DEF AddWord, AddFlag, AddValue, EndToken
    <2>3. entries' \in Seq(ToSet(entries')) /\ \A e \in ToSet(entries') : Started(e)
        BY <2>2, EntryAppended DEF ParseOK
    <2> QED
        BY <2>1, <2>3 DEF ParseOK, asking
<1>4. CASE Set
    <2> DEFINE new == [k \in DOMAIN entries |-> Target(entries[k])]
    <2>1. UNCHANGED <<asking, entries>> /\ pc' \in {"args", "rejected"}
        BY <1>4 DEF Set, parser
    <2>2. targets' = targets \/ targets' = targets \o new
        BY <1>4 DEF Set
    <2>3. new \in Seq(ToSet(new)) /\ \A target \in ToSet(new) : target.label # <<>>
        <3>1. DOMAIN entries = 1 .. Len(entries) /\ Len(entries) \in Nat
            BY LenProperties DEF ParseOK
        <3>2. \A k \in 1 .. Len(entries) : new[k] \in ToSet(new)
            BY <3>1 DEF ToSet
        <3>3. new \in Seq(ToSet(new))
            BY <3>1, <3>2
        <3>4. \A target \in ToSet(new) : \E k \in DOMAIN entries : target = Target(entries[k])
            BY DEF ToSet
        <3> QED
            BY <3>3, <3>4, TargetLabelled
    <2> HIDE DEF new
    <2>4. /\ targets' \in Seq(ToSet(targets'))
          /\ \A target \in ToSet(targets') : target.label # <<>>
        <3>1. targets \in Seq(ToSet(targets))
            BY DEF ParseOK
        <3>2. /\ targets \o new \in Seq(ToSet(targets \o new))
              /\ ToSet(targets \o new) \subseteq ToSet(targets) \cup ToSet(new)
            BY <2>3, <3>1, JoinedMembers
        <3> QED
            BY <2>2, <2>3, <3>2 DEF ParseOK
    <2> QED
        BY <2>1, <2>4 DEF ParseOK, asking
<1>5. CASE Validate \/ UNCHANGED vars
    <2>1. UNCHANGED <<asking, entries, targets>> /\ pc' \in {pc, "accepted", "rejected"}
        BY <1>5 DEF Validate, vars, parser
    <2> QED
        BY <2>1 DEF ParseOK, asking
<1> QED
    BY <1>1, <1>2, <1>3, <1>4, <1>5 DEF Next

LEMMA InductiveInit == ASSUME Init PROVE Inductive
<1>1. Len(<<>>) = 0 /\ ToSet(<<>>) = {} /\ \A S : <<>> \in Seq(S)
    BY DEF ToSet
<1>2. ScanOK
    BY <1>1 DEF Init, ScanOK
<1>3. ParseOK
    BY <1>1, LabelsAssumption DEF Init, ParseOK, LabelsAssumption
<1> QED
    BY <1>2, <1>3 DEF Inductive

LEMMA InductiveCorrect == Spec => []Inductive
<1>1. Inductive /\ [Next]_vars => Inductive'
    BY ScanStep, ParseStep DEF Inductive
<1> QED
    BY <1>1, InductiveInit, PTL DEF Spec

\* However a list is written, the scanner stays in it, the position it jumps to
\* behind a quoted token included; the tokens are of its characters and none is
\* empty, nor is an entry or a target's label.
THEOREM LabelsTypeCorrect == Spec => []TypeOK
<1>1. Inductive => TypeOK
    <2> SUFFICES ASSUME Inductive PROVE TypeOK
        OBVIOUS
    <2>1. \A token \in ToSet(tokens) : token \in Token
        BY MembersOf DEF Inductive, ScanOK
    <2>2. \A token \in ToSet(tokens) : token # <<>> /\ ToSet(token) \subseteq ToSet(raw)
        BY <2>1, MembersOf DEF Token, Characters
    <2> QED
        BY <2>2 DEF Inductive, ScanOK, ParseOK, TypeOK
<1> QED
    BY <1>1, InductiveCorrect, PTL
=============================================================================

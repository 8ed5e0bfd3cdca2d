------------------------------- MODULE Labels -------------------------------
(***************************************************************************)
(* caddy/model.go and cmd/caddy-config: from the lists that are given to   *)
(* --caddy-instance and --os-path, once or repeatedly, to the targets the  *)
(* program runs with.  splitTokensQuoteAware cuts a list into tokens,      *)
(* parseEntries a token into parts and its parts into entries, Set and     *)
(* validate make targets of them.  Labels with domains and redirects are   *)
(* cut the same way; Vhosts starts from their entries.                     *)
(*                                                                         *)
(* A character is a quote, a separator, "=", or any other; of the others a *)
(* word is taken for one.  Escaped quotes are left out.                    *)
(***************************************************************************)
EXTENDS Naturals, Sequences, SequencesExt

CONSTANTS
    Asks,         \* the targets somebody may ask for: a value, which may be empty, and
                  \* flags, each with a key and a value, or a word that stands for both
    Commas,       \* between the parts of one
    Separators,   \* between two of a list
    Styles,       \* how a list is quoted: "plain", "value", "entry"
    MaxTargets,   \* bound: how many are asked for
    Negated,      \* a word "no-x": its x
    WrittenList(_, _) \* what somebody writes who asks for a list of targets in a style

VARIABLES
    pc,           \* "args", "scan", "tokens", "parts", "accepted", "rejected"
    style,        \* of the lists: [quoting, comma, separator]; and what is required
    asked,        \* history: the targets asked for in all lists
    raw,          \* the list that is being parsed
    i, cur, inQuote, tokens,    \* splitTokensQuoteAware
    parts,        \* of the token that parseEntries is at
    entry,        \* its currentValue and currentFlags
    entries,      \* of the list, so far
    targets       \* the targets so far

asking == <<style, asked>>
scanner == <<raw, i, cur, inQuote, tokens>>
parser == <<parts, entry, entries>>
vars == <<pc, asking, scanner, parser, targets>>

Quotes == {"'", "\""}
Space == " "
Punctuation == {",", ":"}
None == ""

-----------------------------------------------------------------------------
(* splitTokensQuoteAware.                                                  *)

\* The first character from k on that is no space; the end when there is none.
NextSolid(k) ==
    CHOOSE n \in k .. Len(raw) + 1 :
        /\ n = Len(raw) + 1 \/ raw[n] # Space
        /\ \A m \in k .. n - 1 : raw[m] = Space

Is(k, characters) == k <= Len(raw) /\ raw[k] \in characters

\* isAdjacentToPunct, forward or backward: a space there is no separator.
NextToPunct(k) ==
    \/ Is(NextSolid(k), Punctuation)
    \/ \E n \in 1 .. k - 1 : Is(n, Punctuation) /\ \A m \in n + 1 .. k - 1 : raw[m] = Space

Scanning == pc = "scan" /\ i <= Len(raw)

OpenQuote ==
    /\ Scanning /\ inQuote = None /\ raw[i] \in Quotes
    /\ inQuote' = raw[i]
    /\ cur' = Append(cur, raw[i])
    /\ i' = i + 1
    /\ UNCHANGED <<pc, asking, raw, tokens, parser, targets>>

Separates == raw[i] = ";" \/ (raw[i] = Space /\ ~NextToPunct(i))

Finished == IF cur = <<>> THEN tokens ELSE Append(tokens, cur)

\* Mutant: a token may be empty.
SeparateAlways ==
    /\ Scanning /\ inQuote = None /\ Separates
    /\ tokens' = Append(tokens, cur)
    /\ cur' = <<>>
    /\ i' = i + 1
    /\ UNCHANGED <<pc, asking, raw, inQuote, parser, targets>>

Separate ==
    /\ Scanning /\ inQuote = None /\ Separates
    /\ tokens' = Finished
    /\ cur' = <<>>
    /\ i' = i + 1
    /\ UNCHANGED <<pc, asking, raw, inQuote, parser, targets>>

SkipSpace ==
    /\ Scanning /\ inQuote = None /\ raw[i] = Space /\ NextToPunct(i)
    /\ i' = i + 1
    /\ UNCHANGED <<pc, asking, raw, cur, inQuote, tokens, parser, targets>>

Copy ==
    /\ Scanning
    /\ IF inQuote = None THEN raw[i] \notin Quotes \cup {";", Space} ELSE raw[i] # inQuote
    /\ cur' = Append(cur, raw[i])
    /\ i' = i + 1
    /\ UNCHANGED <<pc, asking, raw, inQuote, tokens, parser, targets>>

\* Mutant: nothing is looked for behind the quote.
CloseQuoteOnly ==
    /\ Scanning /\ inQuote # None /\ raw[i] = inQuote
    /\ inQuote' = None
    /\ cur' = Append(cur, raw[i])
    /\ i' = i + 1
    /\ UNCHANGED <<pc, asking, raw, tokens, parser, targets>>

\* Behind a quoted token a semicolon ends it, and a comma that another quote
\* follows; both in a row would add it twice.
CloseQuote ==
    /\ Scanning /\ inQuote # None /\ raw[i] = inQuote
    /\ inQuote' = None
    /\ LET str == Append(cur, raw[i])
           behind == NextSolid(i + 1)
           hasSemi == Head(str) = raw[i] /\ Is(behind, {";"})
           k == IF hasSemi THEN NextSolid(behind + 1) ELSE behind
           hasComma == /\ Head(str) = raw[i] /\ Is(k, {","})
                       /\ Is(NextSolid(k + 1), Quotes)
       IN  /\ tokens' = tokens \o (IF hasSemi THEN <<str>> ELSE <<>>)
                               \o (IF hasComma THEN <<str>> ELSE <<>>)
           /\ cur' = IF hasSemi \/ hasComma THEN <<>> ELSE str
           /\ i' = CASE hasComma -> NextSolid(k + 1)
                     [] hasSemi /\ ~hasComma -> k
                     [] OTHER -> i + 1
    /\ UNCHANGED <<pc, asking, raw, parser, targets>>

EndScan ==
    /\ pc = "scan" /\ i > Len(raw)
    /\ pc' = "tokens"
    /\ tokens' = Finished
    /\ UNCHANGED <<asking, raw, i, cur, inQuote, parser, targets>>

-----------------------------------------------------------------------------
(* parseEntries.                                                           *)

\* strings.TrimSpace and strings.Trim(token, ",").
Trimmed(text, character) ==
    LET solid == {k \in DOMAIN text : text[k] # character}
    IN  IF solid = {} THEN <<>> ELSE SubSeq(text, Min(solid), Max(solid))

TrimQuotes(text) ==
    LET solid == Trimmed(text, Space)
    IN  IF /\ Len(solid) >= 2 /\ Head(solid) \in Quotes /\ Last(solid) = Head(solid)
           /\ \A k \in 2 .. Len(solid) - 1 : solid[k] # Head(solid)
        THEN SubSeq(solid, 2, Len(solid) - 1)
        ELSE solid

\* splitPartsQuoteAware: at the commas that are not quoted.
Parts(token) ==
    LET Read(state, r) ==
            CASE state.inQuote = None /\ r = "," ->
                    [state EXCEPT !.parts = Append(@, state.cur), !.cur = <<>>]
              [] state.inQuote = None /\ r \in Quotes ->
                    [state EXCEPT !.inQuote = r, !.cur = Append(@, r)]
              [] OTHER ->
                    [state EXCEPT !.inQuote = IF r = @ THEN None ELSE @, !.cur = Append(@, r)]
        end == FoldLeft(Read, [parts |-> <<>>, cur |-> <<>>, inQuote |-> None], token)
        all == Append(end.parts, end.cur)
    IN  SelectSeq([k \in DOMAIN all |-> Trimmed(all[k], Space)], LAMBDA part : part # <<>>)

NoFlags == [key \in {} |-> <<>>]

Flag(flags, key) == IF key \in DOMAIN flags THEN flags[key] ELSE <<>>

NoEntry == [value |-> <<>>, flags |-> NoFlags]

Started(e) == e.value # <<>> \/ e.flags # NoFlags

TakeToken ==
    /\ pc = "tokens" /\ tokens # <<>>
    /\ pc' = "parts"
    /\ tokens' = Tail(tokens)
    /\ parts' = Parts(TrimQuotes(Trimmed(Head(tokens), ",")))
    /\ entry' = NoEntry
    /\ UNCHANGED <<asking, raw, i, cur, inQuote, entries, targets>>

\* The next part, and what it may be.
Part == Head(parts)
Word == IF Len(Part) = 1 THEN Head(Part) ELSE None
Negates == Word \in DOMAIN Negated /\ (Word = "no-uri" \/ Started(entry))
Cut == SelectInSeq(Part, LAMBDA r : r = "=")
Key == TrimQuotes(SubSeq(Part, 1, Cut - 1))
Value == TrimQuotes(SubSeq(Part, Cut + 1, Len(Part)))
IsWord == Word = "uri" \/ Negates

TakePart ==
    /\ pc = "parts" /\ parts # <<>>
    /\ parts' = Tail(parts)
    /\ UNCHANGED <<pc, asking, scanner, targets>>

SetFlag(e, key, value) == entry' = [e EXCEPT !.flags = (key :> value) @@ @]

AddWord ==
    /\ TakePart /\ IsWord
    /\ IF Word = "uri" THEN SetFlag(entry, <<"uri">>, <<"true">>)
       ELSE SetFlag(entry, <<Negated[Word]>>, <<"false">>)
    /\ UNCHANGED entries

\* isNewTarget: a flag that the entry has already begins the next one.
BeginsNext ==
    \/ /\ Key = <<"instance">> /\ Flag(entry.flags, Key) # <<>>
       /\ Flag(entry.flags, <<"project">>) # <<>>
    \/ Key = <<"path">> /\ Flag(entry.flags, Key) # <<>> /\ entry.value = <<>>

AddFlag ==
    /\ TakePart /\ ~IsWord /\ Cut # 0
    /\ IF BeginsNext
       THEN entries' = Append(entries, entry) /\ SetFlag(NoEntry, Key, Value)
       ELSE UNCHANGED entries /\ SetFlag(entry, Key, Value)

\* A part that is no flag is the value, of the next entry if this one has begun.
AddValue ==
    /\ TakePart /\ ~IsWord /\ Cut = 0
    /\ entry' = [value |-> TrimQuotes(Part), flags |-> NoFlags]
    /\ entries' = IF Started(entry) THEN Append(entries, entry) ELSE entries

EndToken ==
    /\ pc = "parts" /\ parts = <<>>
    /\ pc' = "tokens"
    /\ entries' = IF Started(entry) THEN Append(entries, entry) ELSE entries
    /\ UNCHANGED <<asking, scanner, parts, entry, targets>>

-----------------------------------------------------------------------------
\* parseTargetEntry.
Target(e) ==
    [label |-> CASE Flag(e.flags, <<"label">>) # <<>> -> Flag(e.flags, <<"label">>)
                 [] Flag(e.flags, <<"label">>) = <<>> /\ e.value # <<>> -> e.value
                 [] OTHER -> <<"caddy">>,
     flags |-> e.flags]

\* What is meant by a target: every flag it is asked for with.
MeantFlag(flag) ==
    CASE flag.word = None -> <<flag.key>> :> flag.value
      [] flag.word = "uri" -> <<"uri">> :> <<"true">>
      [] flag.word \in DOMAIN Negated -> <<Negated[flag.word]>> :> <<"false">>

Meant(ask) ==
    Target([value |-> ask.value,
            flags |-> FoldLeft(LAMBDA flags, flag : MeantFlag(flag) @@ flags, NoFlags, ask.flags)])

\* A flag is given, with a list of targets that are to be told apart.
Give(list) ==
    /\ pc = "args"
    /\ Len(asked) + Len(list) <= MaxTargets
    /\ pc' = "scan"
    /\ asked' = asked \o list
    /\ raw' = WrittenList(list, style)
    /\ i' = 1
    /\ cur' = <<>>
    /\ inQuote' = None
    /\ tokens' = <<>>
    /\ entries' = <<>>
    /\ UNCHANGED <<style, parts, entry, targets>>

\* Set, with ParseTargets.
Set ==
    /\ pc = "tokens" /\ tokens = <<>>
    /\ IF entries = <<>> \/ \E e \in ToSet(entries) : ":" \in ToSet(e.value)
       THEN pc' = "rejected" /\ UNCHANGED targets
       ELSE /\ pc' = "args"
            /\ targets' = targets \o [k \in DOMAIN entries |-> Target(entries[k])]
    /\ UNCHANGED <<asking, scanner, parser>>

Complete(flags) == \A key \in style.required : Flag(flags, key) # <<>>

\* Mutant: nothing is required of a target.
ValidateNothing ==
    /\ pc = "args" /\ targets # <<>>
    /\ pc' = "accepted"
    /\ UNCHANGED <<asking, scanner, parser, targets>>

\* validate.
Validate ==
    /\ pc = "args" /\ targets # <<>>
    /\ pc' = IF \A k \in DOMAIN targets : Complete(targets[k].flags)
             THEN "accepted" ELSE "rejected"
    /\ UNCHANGED <<asking, scanner, parser, targets>>

Required == {{<<"instance">>, <<"project">>}, {<<"path">>}}

AllStyles ==
    [quoting : Styles, comma : Commas, separator : Separators, required : Required]

Init ==
    /\ style \in AllStyles
    /\ pc = "args"
    /\ asked = <<>>
    /\ raw = <<>>
    /\ i = 1
    /\ cur = <<>>
    /\ inQuote = None
    /\ tokens = <<>>
    /\ parts = <<>>
    /\ entry = NoEntry
    /\ entries = <<>>
    /\ targets = <<>>

ListsOf(asks) == UNION {[1 .. n -> asks] : n \in 1 .. MaxTargets}

\* The lists of targets that have what is required of them.
Lists == ListsOf({ask \in Asks : Complete(Meant(ask).flags)})

LabelsAssumption ==
    /\ MaxTargets \in Nat
    /\ \A list \in ListsOf(Asks), s \in AllStyles : WrittenList(list, s) \in Seq(STRING)

ASSUME LabelsAssumption

Next ==
    \/ \E list \in Lists : Give(list)
    \/ OpenQuote \/ Separate \/ SkipSpace \/ Copy \/ CloseQuote \/ EndScan
    \/ TakeToken \/ AddWord \/ AddFlag \/ AddValue \/ EndToken
    \/ Set \/ Validate

Spec == Init /\ [][Next]_vars

-----------------------------------------------------------------------------
(* Properties.                                                             *)

\* The variables have their types.  The scanner's position is in the list or just
\* behind it, also where it has looked ahead; tokens are of the list's characters;
\* nothing is empty, neither a token nor an entry nor the label of a target.
TypeOK ==
    /\ pc \in {"args", "scan", "tokens", "parts", "accepted", "rejected"}
    /\ Len(asked) <= MaxTargets
    /\ i \in 1 .. Len(raw) + 1
    /\ inQuote \in Quotes \cup {None}
    /\ \A token \in ToSet(tokens) : token # <<>> /\ ToSet(token) \subseteq ToSet(raw)
    /\ \A e \in ToSet(entries) : Started(e)
    /\ \A target \in ToSet(targets) : target.label # <<>>

AsAsked == targets = [k \in DOMAIN asked |-> Meant(asked[k])]

Remote == <<"project">> \in style.required

HasColon(ask) == ":" \in ToSet(ask.value)

\* As docs/root/configuration.md:37 has them: "[label,]instance=<inst>,project=<proj>[,flags...]".
Documented(ask) ==
    IF Remote THEN ask.flags[1].key = "instance" /\ ask.flags[2].key = "project"
    ELSE ask.flags[1].key = "path"

\* A target with a label and behind it, in the same token, a path without one:
\* the entry takes the second path, and the first is lost.
PathLost ==
    /\ ~Remote
    /\ style.quoting # "entry" /\ "," \in ToSet(style.separator)
    /\ \E k \in 1 .. Len(asked) - 1 : asked[k].value # <<>> /\ asked[k + 1].value = <<>>

\* Targets in the documented form arrive, all of them and with all their flags,
\* however they are separated and quoted, in one list or in several; but for
\* PathLost.  One with a colon is refused.
ListsSurvive ==
    pc \in {"accepted", "rejected"} /\ ~PathLost /\ (\A ask \in ToSet(asked) : Documented(ask)) =>
        IF \E ask \in ToSet(asked) : HasColon(ask) THEN pc = "rejected"
        ELSE pc = "accepted" /\ AsAsked

\* The parser takes the project for that of the target before when it comes
\* first; then the last instance has none, and validate notices.  So nothing is
\* deployed to an instance of the wrong project, if all targets have one order.
NoneMispaired ==
    /\ pc = "accepted" /\ Remote
    /\ \A a, b \in ToSet(asked) : Documented(a) = Documented(b)
    => AsAsked
=============================================================================

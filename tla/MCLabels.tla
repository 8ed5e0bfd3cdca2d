------------------------------ MODULE MCLabels ------------------------------
(* Labels on a small instance: the constants' values.                      *)
EXTENDS Labels

With(key, value) == [word |-> None, key |-> key, value |-> value]
Alone(word) == [word |-> word, key |-> None, value |-> <<>>]

Ask(value, flags) == [value |-> value, flags |-> flags]

I1 == With("instance", <<"i1">>)
I2 == With("instance", <<"i2">>)
P1 == With("project", <<"p1">>)
P2 == With("project", <<"p2">>)
Etc == With("path", <<"/etc">>)
Var == With("path", <<"/var">>)

MCAsks ==
    {Ask(<<>>, <<I1, P1>>),
     Ask(<<>>, <<I2, P2, With("label", <<"edge">>), Alone("no-uri")>>),
     Ask(<<>>, <<P2, I2, Alone("no-cache")>>),
     Ask(<<"edge">>, <<I1, P1, With("template", <<"a", ",", Space, "b", ";">>)>>),
     Ask(<<"caddy", ":", "i1">>, <<I1, P1>>),
     Ask(<<>>, <<Etc>>),
     Ask(<<>>, <<Var, Alone("uri")>>),
     Ask(<<"edge">>, <<Etc, With("template", <<"x", ";", Space, "y">>)>>),
     Ask(<<"back">>, <<Var>>)}

MCCommas == {<<",">>, <<",", Space>>}
MCSeparators == {<<",">>, <<Space, ",", Space>>, <<Space, Space>>, <<Space, ";", Space>>}
\* How somebody writes what is asked for: with commas between the parts of a target
\* and a separator between two, and with quotes where they are needed or wanted.
Quoted(quote, text) == <<quote>> \o text \o <<quote>>

Risky(text) == ToSet(text) \cap {",", ";", Space} # {}

WrittenValue(text, s) ==
    IF s.quoting = "value" \/ Risky(text) THEN Quoted("'", text) ELSE text

WrittenFlag(flag, s) ==
    IF flag.word # None THEN <<flag.word>>
    ELSE <<flag.key, "=">> \o WrittenValue(flag.value, s)

Joined(texts, by) ==
    FoldLeft(LAMBDA list, text : IF list = <<>> THEN text ELSE list \o by \o text, <<>>, texts)

Written(ask, s) ==
    LET flags == [k \in DOMAIN ask.flags |-> WrittenFlag(ask.flags[k], s)]
        texts == IF ask.value = <<>> THEN flags ELSE <<WrittenValue(ask.value, s)>> \o flags
        text == Joined(texts, s.comma)
    IN  IF s.quoting = "entry" THEN Quoted("\"", text) ELSE text

MCWrittenList(list, s) == Joined([k \in DOMAIN list |-> Written(list[k], s)], s.separator)

MCNegated == [word \in {"no-uri", "no-cache"} |-> IF word = "no-uri" THEN "uri" ELSE "cache"]
=============================================================================

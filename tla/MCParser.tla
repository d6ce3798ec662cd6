------------------------------ MODULE MCParser ------------------------------
(* Topics for TLC: how a source begins, and the tokens it goes on with.    *)
EXTENDS Parser, TLC

MCIdentifiers == {"int", "void", "S", "T", "x", "f", "g", "len", "operator", "ref", "_"}
MCBasicTypes  == ("int" :> "other") @@ ("void" :> "void")

Topic(prefix, alphabet, more) ==
  [prefix |-> prefix, alphabet |-> alphabet \cup {EOF}, limit |-> Len(prefix) + more]

Global    == <<"int", "x", "=">>
Function  == <<"int", "f", "(", ")", "{">>
Struct    == <<"struct", "S", "{", "int", "x", ";", "}", ";">>

OperatorOf(ret, op) == Struct \o <<ret, "operator", op, "(">>

MCTopics == {
  Topic(Global, {"x", "+", "*", "=", "*=", "?", ":", "(", ")", ";"}, 5),
  Topic(Global \o <<"x">>, {"x", "||", "&&", "==", "<", "+", "+=", ";"}, 7),
  Topic(Global \o <<"x", "?", "x">>, {"x", "+", "=", ":", "?", ";"}, 7),
  Topic(Global \o <<"(", "x", "+", "x">>, {"x", ")", "*", "=", "&&", ";"}, 6),
  Topic(Function \o <<"}">> \o Global \o <<"x">>, {"x", "f", ".", "(", ")", "len", ",", ";"}, 6),
  Topic(Global \o <<"x">>, {"1", "[", "]", "..", "->", "x", ";"}, 7),
  Topic(Global, {"sizeof", "(", ")", "int", "x", "1", ";"}, 6),
  Topic(Global, {"new", "int", "*", "?", "[", "]", "1", "(", ")", ";"}, 5),
  Topic(Global, {"{", "}", ",", "1", "%", "..", "++", "!", ";"}, 5),
  Topic(Global \o <<"[">>, {"1", "..", "[", "]", "null", ";"}, 5),
  Topic(Global \o <<"asm", "(">>, {"s", ",", ":", "int", "1", ")", ";"}, 7),
  Topic(Global \o <<"match", "(", "x", ")", "{">>,
        {"1", "..", "_", "x", "=>", ",", "|", "}", ";"}, 8),
  Topic(Struct \o <<"S", "x", "=", "S", "(">>, {"1", ",", "-", ")", ";", "S", "("}, 6),
  Topic(Function, {"x", ";", "while", "do", "(", ")", "{", "}", "break"}, 6),
  Topic(Function \o <<"do", ";", "while">>, {"x", ";", "(", ")", "}"}, 5),
  Topic(Function \o <<"if", "(", "x", ")">>, {";", "else", "x", "if", "{", "}", "="}, 6),
  Topic(Function \o <<"for", "(">>, {"x", ";", "int", ")", "}"}, 9),
  Topic(Function \o <<"foreach", "(">>, {"x", "int", "in", ")", ";", "}"}, 7),
  Topic(Function \o <<"foreach", "ref", "(", "int">>, {"x", "[", "in", ")", ";", "}"}, 7),
  Topic(Function \o <<"typedef", "int", "T", ";">>, {"return", "T", "x", "*", "=", ";", "}"}, 6),
  Topic(<<>>, {"int", "void", "f", "x", "(", ")", "{", "}", ";", ","}, 7),
  Topic(<<>>, {"struct", "S", "{", "}", "int", "x", ";", "typedef", "T"}, 7),
  Topic(OperatorOf("S", "+"), {"S", "x", ",", ")", "{", "}"}, 8),
  Topic(OperatorOf("S", "!"), {"S", "x", ",", ")", "{", "}"}, 8),
  Topic(OperatorOf("int", "~"), {"S", "int", "x", ",", ")", "{", "}"}, 8),
  Topic(<<"int", "[", "sizeof", "(">>, {"int", "x", ")", "]", "1", "(", ";"}, 6)}
=============================================================================

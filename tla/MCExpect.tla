------------------------------ MODULE MCExpect ------------------------------
\* Constants of Expect that a configuration file cannot write.
EXTENDS Expect

\* Two letters; a text that overlaps itself, a regular expression and tokens,
\* each trimmed to a length of its own.
a == 1
b == 2
OneByte == {<<a>>, <<b>>}
SomeTexts == {<<a, a, b>>}
SomeRegexes == {<<<<b>>, <<>>>>}
SomeTokens == {<<<<b, b>>, <<a>>>>}

\* The arrays, with the one that lets the trimming survive, and what follows
\* them in ptr[256].
SomeArrays == {<<a>>, <<>>}
SomeRemains == {<<b>>}

\* For ever, and two sleeps.
ForeverOrTwo == {-1, 2}
=============================================================================

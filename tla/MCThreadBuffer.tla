---------------------------- MODULE MCThreadBuffer ----------------------------
(* The responses of the runs of ThreadBuffer.                                *)
EXTENDS ThreadBuffer

Answer(p, ok) == [pieces |-> p, ok |-> ok]

\* Complete JSON bodies: empty, one chunk, two pieces, a piece of the largest size
\* and the rest, three pieces; and a small one that comes with an HTTP error.
GoodResponses ==
    {Answer(<<>>, TRUE), Answer(<<<<"end">>>>, TRUE),
     Answer(<<<<"more">>, <<"end">>>>, TRUE),
     Answer(<<<<"more", "more">>, <<"end">>>>, TRUE),
     Answer(<<<<"more">>, <<"more">>, <<"end">>>>, TRUE),
     Answer(<<<<"end">>>>, FALSE)}

\* Bodies that are not JSON: in their one chunk, from the first piece on, or in
\* the second chunk of a piece, with an HTTP error.
ShortBadResponses == {Answer(<<<<"bad">>>>, TRUE)}
BadResponses ==
    ShortBadResponses
        \cup {Answer(<<<<"bad">>, <<"more">>>>, TRUE), Answer(<<<<"more", "bad">>>>, FALSE)}

AllResponses == GoodResponses \cup BadResponses
=============================================================================

--------------------------- MODULE MCTagExtractor ---------------------------
\* TagExtractor on the answers of MCAnswerTexts.
EXTENDS TagExtractor, MCAnswerTexts
=============================================================================

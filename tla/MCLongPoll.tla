------------------------------ MODULE MCLongPoll ------------------------------
\* LongPoll as it is: the cfg files give its constants their model values.
\* With at most two answers given up, three request slots are never short.
EXTENDS LongPoll
=============================================================================

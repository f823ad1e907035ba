--------------------------- MODULE MCModelGateway ---------------------------
(* Lines that cut text inside and outside the think tags, calls written    *)
(* into the text, an answer that reads like a failure, and fragments of    *)
(* two native calls, one without an index.                                 *)
EXTENDS ModelGateway

Text(words)        == [kind |-> "content", words |-> words]
Thought(words)     == [kind |-> "reasoning", words |-> words]
Fragment(i, id, a) == [kind |-> "fragment", index |-> i, id |-> id, args |-> a]

MCLines == {Text(<<"block", "<think>", "json">>), Text(<<"</think>", "tag">>),
            Text(<<"API Error", "dsml">>), Thought(<<"json">>),
            Fragment(0, "id1", "a"), Fragment(1, NoId, "b"), Fragment(NoIndex, NoId, "c")}
=============================================================================

---------------------------- MODULE MCRetryClient ----------------------------
(* Two tasks and two services, one of them failing and streamed from.       *)
EXTENDS RetryClient

CONSTANTS c1, c2, chat, sched

MCCallers  == {c1, c2}
MCServices == {chat, sched}
MCFaulty   == {chat}
MCVerbs    == {"json", "stream"}
=============================================================================

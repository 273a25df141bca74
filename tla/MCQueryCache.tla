---------------------------- MODULE MCQueryCache ----------------------------
EXTENDS QueryCache

\* One key of every kind: heard and not polled, heard and polled, polled with
\* mutations, behind a lenient fetcher, and with a mutation that does not look
\* at the answer.
TrackedKeys == {Items, Processing, Proposals, BlockedSummary, Downloads}
VisitedPages == {"login", "library", "process", "retain", "acquire"}
=============================================================================

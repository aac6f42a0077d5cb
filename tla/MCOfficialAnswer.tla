-------------------------- MODULE MCOfficialAnswer --------------------------
\* GET /answer on the values of AnswerCases.  The evidence e2 was filed on day
\* 2; a request asks about day 1 or, without as_of, about all filings.
EXTENDS OfficialAnswer, AnswerCases

MCFiled == [id \in {"e1", "e2"} |-> IF id = "e1" THEN 1 ELSE 2]

MCQueries ==
    [valid : {TRUE}, ready : {TRUE}, service : {TRUE}, asOf : {1, 2}]
        \cup [valid : BOOLEAN, ready : BOOLEAN, service : {FALSE}, asOf : {1}]
=============================================================================

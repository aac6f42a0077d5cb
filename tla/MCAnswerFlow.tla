---------------------------- MODULE MCAnswerFlow ----------------------------
\* One question through AnswerFlow on the values of AnswerCases.
EXTENDS AnswerFlow, AnswerCases
=============================================================================

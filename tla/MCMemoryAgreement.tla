------------------------- MODULE MCMemoryAgreement -------------------------
EXTENDS MemoryAgreement

MCCalldata == <<0, 1>>
MCCode     == <<1>>
MCExtCode  == <<1, 0, 1, 1>>

\* One answer shorter than a copy, and one longer than the ceiling.
MCAnswers == {<<1>>, <<0, 1, 1, 1>>}
=============================================================================

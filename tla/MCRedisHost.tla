------------------------------ MODULE MCRedisHost ------------------------------
EXTENDS RedisHost

CONSTANTS a, b, caller, number

\* One sweep has a test that hangs before one that passes and sets other fields, the other a test
\* that is to fail.
MCFixtures ==
  [r \in {a, b} |->
     IF r = a THEN << [sets |-> {caller}, ends |-> "hangs"], [sets |-> {number}, ends |-> "ok"] >>
     ELSE << [sets |-> {caller}, ends |-> "raises"] >>]
=============================================================================

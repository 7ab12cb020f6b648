----------------------------- MODULE MCSession -----------------------------
\* Session as TLC instantiates it; users who log in alike are interchangeable, and
\* so are logins.
EXTENDS Session, TLC

Alike == Permutations(EmailUsers) \cup Permutations(Requests)
=============================================================================

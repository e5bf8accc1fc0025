----------------------------- MODULE MCApiLogin -----------------------------
EXTENDS ApiLogin

\* The limits of both endpoints are one constant in the code; one of them is
\* kept lower here for the size of the model.
MCMaxRequests == [e \in Endpoint |-> IF e = "auth_login" THEN 2 ELSE 1]
=============================================================================

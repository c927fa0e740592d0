----------------------------- MODULE MCSession ------------------------------
(* Instances of Session for TLC, and what the documentation says of it. *)
EXTENDS Session

CONSTANTS t1, t2, u1, u2
-----------------------------------------------------------------------------
\* docs/api: /auth/me answers the "Current user profile".  What the browser keeps
\* as the profile of its token is that of the user who logged in.
ProfileIsOwner == Own(storage)
=============================================================================

---- MODULE MCTuiSession ----
EXTENDS TuiSession

\* One vault of each kind the client distinguishes.
MCExternal ==
    {Loaded(FALSE, "member", FALSE), Loaded(FALSE, "member", TRUE),
     Loaded(FALSE, "unvouched", FALSE), Loaded(FALSE, "gone", FALSE),
     Loaded(TRUE, "member", TRUE),
     Unloadable("missing"), Unloadable("untrusted")}
====

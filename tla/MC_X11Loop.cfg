\* The fdmon list with two ctxs: enough for a pass over both whose
\* callbacks unregister the current ctx or the next one, or register a freed one again.
\* Two scheduled calls with delays up to 1 us: equal calltimes, a call
\* scheduled from a fn, and a select woken by the head's calltime.
CONSTANTS
    Ctx = {c1, c2}
    NULL = NULL
    CallIds = {k1, k2}
    MaxDelay = 1
SPECIFICATION Spec
INVARIANT TypeOK NoUseAfterFree ListWellFormed RefcountMatches
PROPERTY NoCallbackAfterUnregister PassCompletes FdSetRefinement CallsRunInOrder CallsEventuallyRun

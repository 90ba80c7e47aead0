\* A code that lives three poll intervals and may expire during a poll.
CONSTANTS
    Expires = TRUE
    Lifetime = 3
    MaxCodes = 3
    MaxCancels = 2
SPECIFICATION LoginSpec
INVARIANT LoginGoesOn
CHECK_DEADLOCK FALSE

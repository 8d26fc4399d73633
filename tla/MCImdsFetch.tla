----------------------------- MODULE MCImdsFetch -----------------------------
EXTENDS ImdsFetch

MCStatuses == {200, 404, 408, 429, 500, 501, 503}
MCAttemptOptions == {-1, 0, 1, 2}
=============================================================================

---------------------------- MODULE MCBrowserWake ----------------------------
EXTENDS BrowserWake

CONSTANTS j1, j2
=============================================================================

----------------------------- MODULE MCBulletins -----------------------------
\* A station and the sysop, one after the other, beside the web interface; two
\* area names and two messages.
EXTENDS Bulletins
=============================================================================

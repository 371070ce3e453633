---- MODULE MCContextWindow ----
EXTENDS ContextWindow
====

------------------------------ MODULE MCAppId -------------------------------
EXTENDS AppId, TLC

CONSTANTS app, helper, lib   \* three services, each in a directory of its own

MCHome == [d \in {app, helper, lib} |-> d]

\* The path of app is a substring of the directory of helper: its prefix or parent.
MCNested == {<<d, d>> : d \in {app, helper, lib}} \cup {<<helper, app>>}

MCStacks == {<<app>>, <<helper, app>>, <<lib, helper, app>>}

=============================================================================

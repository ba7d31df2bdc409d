------------------------------ MODULE MCHubOps ------------------------------
EXTENDS HubOps

\* Switches that race fetches and each other, edits that race titles, branches
\* and reloads seen by two viewers, and connections that leave while served.
SomeMenus ==
    {{"open", "scoped", "jobs"},
     {"rename", "archive", "title", "tick"},
     {"reload", "branch", "jobs"},
     {"cleanup", "detach", "new", "reply", "leave"},
     {"open", "session_list", "leave"}}
=============================================================================

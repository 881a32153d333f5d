------------------------------ MODULE MCChecks ------------------------------
EXTENDS Checks
AllScripts == {"loading", "account", "name", "undo", "history", "mint", "viewonly", "addressed", "shot"}
=============================================================================

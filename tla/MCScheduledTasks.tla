---------------------------- MODULE MCScheduledTasks ----------------------------
\* The first start finds no row, or two of one name as an edit leaves them.
EXTENDS ScheduledTasks

Task(active) == [name |-> "a", plan |-> "daily", active |-> active]
MCFirstRows == {<< >>, <<Task(TRUE), Task(FALSE)>>}
===============================================================================

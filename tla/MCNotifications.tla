-------------------------- MODULE MCNotifications --------------------------
EXTENDS Notifications, TLC

\* The users are interchangeable, and so are the tasks.
NotificationsSymmetry == Permutations(User) \cup Permutations(Task)
=============================================================================

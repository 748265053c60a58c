\* The servers of MCNetwork; TLC stops at the first unanswered request.
SPECIFICATION Spec
INVARIANT BrowseAnswered
CHECK_DEADLOCK FALSE

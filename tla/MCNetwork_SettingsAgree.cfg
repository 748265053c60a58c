\* Once the links are drained, all servers agree on every user's settings; TLC
\* finds a moderator's alter_port crossing the user's own change_data_port.
SPECIFICATION Spec
INVARIANT SettingsAgree
CHECK_DEADLOCK FALSE

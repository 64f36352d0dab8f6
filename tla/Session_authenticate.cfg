\* A login the server accepts is rejected by the SDK.
SPECIFICATION SessionSpec
CONSTANTS
  Logins = {l}
  Requests = {r}
INVARIANTS AcceptedLoginSucceeds
CHECK_DEADLOCK FALSE

SPECIFICATION Spec
CONSTANTS
  Main = m
  Threads = {m, t1, t2}
  Masters = {m, t1}
  NoThread = none
  AwaitStillborn = FALSE
INVARIANTS CredentialsAgree NoMismatch HandlerSeesCommand
 

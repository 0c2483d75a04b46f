\* Does the command "exit" end the program?
SPECIFICATION FairSpec
PROPERTY ExitTerminates
